---- MODULE Spec2Model ----
(***************************************************************************)
(* A model of ansi_print.c: the markup tokenizer, the tag-state machine    *)
(* and the enable/NO_COLOR state of the ANSI markup printer.               *)
(*                                                                         *)
(* Text is a sequence of bytes.  An ASCII byte is written as the one-      *)
(* character string of that character, any other byte as "xHH" (BYTES      *)
(* gives the value of every byte symbol).  A C string ends at the first    *)
(* position past the sequence, where At() reads the terminating NUL.       *)
(* An escape sequence handed to output_string() is one element of the      *)
(* output stream, written "ESC[...m"; an ESC byte of the input text is the *)
(* byte "x1B".  capture_buf is the log of the calls the sink received:     *)
(* the bytes and escapes given to the putc function and a FLUSH mark for   *)
(* each call of the flush function.                                        *)
(***************************************************************************)
EXTENDS Integers, Sequences, FiniteSets, TLC

(* ----------------------------------------------------------------------- *)
(* Constants of ansi_print.c                                               *)
(* ----------------------------------------------------------------------- *)

RESET == "ESC[0m"

BOLD          == "ESC[1m"
DIM           == "ESC[2m"
ITALIC        == "ESC[3m"
UNDERLINE     == "ESC[4m"
INVERT        == "ESC[7m"
STRIKETHROUGH == "ESC[9m"

STYLE_BOLD      == 1
STYLE_DIM       == 2
STYLE_ITALIC    == 4
STYLE_UNDERLINE == 8
STYLE_INVERT    == 16
STYLE_STRIKE    == 32
STYLE_RAINBOW   == 64
STYLE_GRADIENT  == 128

NULL == "NULL"
NUL  == "NUL"

(* The value of every byte symbol: BYTES[n + 1] is the byte n.             *)
BYTES ==
  <<
    "NUL", "x01", "x02", "x03", "x04", "x05", "x06", "x07",
    "x08", "\t", "\n", "x0B", "\f", "\r", "x0E", "x0F",
    "x10", "x11", "x12", "x13", "x14", "x15", "x16", "x17",
    "x18", "x19", "x1A", "x1B", "x1C", "x1D", "x1E", "x1F",
    " ", "!", "\"", "#", "$", "%", "&", "x27",
    "(", ")", "*", "+", ",", "-", ".", "/",
    "0", "1", "2", "3", "4", "5", "6", "7",
    "8", "9", ":", ";", "<", "=", ">", "?",
    "@", "A", "B", "C", "D", "E", "F", "G",
    "H", "I", "J", "K", "L", "M", "N", "O",
    "P", "Q", "R", "S", "T", "U", "V", "W",
    "X", "Y", "Z", "[", "\\", "]", "^", "_",
    "x60", "a", "b", "c", "d", "e", "f", "g",
    "h", "i", "j", "k", "l", "m", "n", "o",
    "p", "q", "r", "s", "t", "u", "v", "w",
    "x", "y", "z", "{", "|", "}", "~", "x7F",
    "x80", "x81", "x82", "x83", "x84", "x85", "x86", "x87",
    "x88", "x89", "x8A", "x8B", "x8C", "x8D", "x8E", "x8F",
    "x90", "x91", "x92", "x93", "x94", "x95", "x96", "x97",
    "x98", "x99", "x9A", "x9B", "x9C", "x9D", "x9E", "x9F",
    "xA0", "xA1", "xA2", "xA3", "xA4", "xA5", "xA6", "xA7",
    "xA8", "xA9", "xAA", "xAB", "xAC", "xAD", "xAE", "xAF",
    "xB0", "xB1", "xB2", "xB3", "xB4", "xB5", "xB6", "xB7",
    "xB8", "xB9", "xBA", "xBB", "xBC", "xBD", "xBE", "xBF",
    "xC0", "xC1", "xC2", "xC3", "xC4", "xC5", "xC6", "xC7",
    "xC8", "xC9", "xCA", "xCB", "xCC", "xCD", "xCE", "xCF",
    "xD0", "xD1", "xD2", "xD3", "xD4", "xD5", "xD6", "xD7",
    "xD8", "xD9", "xDA", "xDB", "xDC", "xDD", "xDE", "xDF",
    "xE0", "xE1", "xE2", "xE3", "xE4", "xE5", "xE6", "xE7",
    "xE8", "xE9", "xEA", "xEB", "xEC", "xED", "xEE", "xEF",
    "xF0", "xF1", "xF2", "xF3", "xF4", "xF5", "xF6", "xF7",
    "xF8", "xF9", "xFA", "xFB", "xFC", "xFD", "xFE", "xFF"
  >>

Chr(n) == BYTES[n + 1]
Ord(c) == (CHOOSE i \in 1..256 : BYTES[i] = c) - 1

(* s[i] of a NUL-terminated C string *)
At(s, i) == IF i >= 1 /\ i <= Len(s) THEN s[i] ELSE NUL

(* <ctype.h> isspace in the C locale *)
isspace(c) == c \in {" ", "\t", "\n", "x0B", "\f", "\r"}

(* StyleMask is a uint8_t; every mask b used below has a single bit set *)
HasBit(m, b) == (m \div b) % 2 = 1
SetBit(m, b) == IF HasBit(m, b) THEN m ELSE m + b
ClearBit(m, b) == IF HasBit(m, b) THEN m - b ELSE m

(* C integer division truncates toward zero *)
CDiv(a, b) == IF a >= 0 THEN a \div b ELSE -((-a) \div b)

(* ----------------------------------------------------------------------- *)
(* Color & style table, emoji table                                        *)
(* ----------------------------------------------------------------------- *)

ATTRS ==
  <<
    [name |-> <<"b", "l", "a", "c", "k">>, fg_code |-> "ESC[30m", bg_code |-> "ESC[40m", style |-> 0, rgb |-> <<0, 0, 0>>],
    [name |-> <<"r", "e", "d">>, fg_code |-> "ESC[31m", bg_code |-> "ESC[41m", style |-> 0, rgb |-> <<255, 0, 0>>],
    [name |-> <<"g", "r", "e", "e", "n">>, fg_code |-> "ESC[32m", bg_code |-> "ESC[42m", style |-> 0, rgb |-> <<0, 205, 0>>],
    [name |-> <<"y", "e", "l", "l", "o", "w">>, fg_code |-> "ESC[33m", bg_code |-> "ESC[43m", style |-> 0, rgb |-> <<255, 255, 0>>],
    [name |-> <<"b", "l", "u", "e">>, fg_code |-> "ESC[34m", bg_code |-> "ESC[44m", style |-> 0, rgb |-> <<0, 0, 255>>],
    [name |-> <<"m", "a", "g", "e", "n", "t", "a">>, fg_code |-> "ESC[35m", bg_code |-> "ESC[45m", style |-> 0, rgb |-> <<255, 0, 255>>],
    [name |-> <<"c", "y", "a", "n">>, fg_code |-> "ESC[36m", bg_code |-> "ESC[46m", style |-> 0, rgb |-> <<0, 255, 255>>],
    [name |-> <<"w", "h", "i", "t", "e">>, fg_code |-> "ESC[37m", bg_code |-> "ESC[47m", style |-> 0, rgb |-> <<255, 255, 255>>],
    [name |-> <<"o", "r", "a", "n", "g", "e">>, fg_code |-> "ESC[38;5;208m", bg_code |-> "ESC[48;5;208m", style |-> 0, rgb |-> <<255, 135, 0>>],
    [name |-> <<"p", "i", "n", "k">>, fg_code |-> "ESC[38;5;213m", bg_code |-> "ESC[48;5;213m", style |-> 0, rgb |-> <<255, 135, 255>>],
    [name |-> <<"p", "u", "r", "p", "l", "e">>, fg_code |-> "ESC[38;5;93m", bg_code |-> "ESC[48;5;93m", style |-> 0, rgb |-> <<135, 0, 255>>],
    [name |-> <<"b", "r", "o", "w", "n">>, fg_code |-> "ESC[38;5;94m", bg_code |-> "ESC[48;5;94m", style |-> 0, rgb |-> <<135, 95, 0>>],
    [name |-> <<"t", "e", "a", "l">>, fg_code |-> "ESC[38;5;37m", bg_code |-> "ESC[48;5;37m", style |-> 0, rgb |-> <<0, 175, 175>>],
    [name |-> <<"l", "i", "m", "e">>, fg_code |-> "ESC[38;5;118m", bg_code |-> "ESC[48;5;118m", style |-> 0, rgb |-> <<135, 255, 0>>],
    [name |-> <<"n", "a", "v", "y">>, fg_code |-> "ESC[38;5;18m", bg_code |-> "ESC[48;5;18m", style |-> 0, rgb |-> <<0, 0, 135>>],
    [name |-> <<"o", "l", "i", "v", "e">>, fg_code |-> "ESC[38;5;100m", bg_code |-> "ESC[48;5;100m", style |-> 0, rgb |-> <<135, 135, 0>>],
    [name |-> <<"m", "a", "r", "o", "o", "n">>, fg_code |-> "ESC[38;5;52m", bg_code |-> "ESC[48;5;52m", style |-> 0, rgb |-> <<95, 0, 0>>],
    [name |-> <<"a", "q", "u", "a">>, fg_code |-> "ESC[38;5;51m", bg_code |-> "ESC[48;5;51m", style |-> 0, rgb |-> <<0, 255, 255>>],
    [name |-> <<"s", "i", "l", "v", "e", "r">>, fg_code |-> "ESC[38;5;250m", bg_code |-> "ESC[48;5;250m", style |-> 0, rgb |-> <<188, 188, 188>>],
    [name |-> <<"g", "r", "a", "y">>, fg_code |-> "ESC[38;5;244m", bg_code |-> "ESC[48;5;244m", style |-> 0, rgb |-> <<128, 128, 128>>],
    [name |-> <<"b", "r", "i", "g", "h", "t", "_", "b", "l", "a", "c", "k">>, fg_code |-> "ESC[90m", bg_code |-> "ESC[100m", style |-> 0, rgb |-> <<128, 128, 128>>],
    [name |-> <<"b", "r", "i", "g", "h", "t", "_", "r", "e", "d">>, fg_code |-> "ESC[91m", bg_code |-> "ESC[101m", style |-> 0, rgb |-> <<255, 85, 85>>],
    [name |-> <<"b", "r", "i", "g", "h", "t", "_", "g", "r", "e", "e", "n">>, fg_code |-> "ESC[92m", bg_code |-> "ESC[102m", style |-> 0, rgb |-> <<85, 255, 85>>],
    [name |-> <<"b", "r", "i", "g", "h", "t", "_", "y", "e", "l", "l", "o", "w">>, fg_code |-> "ESC[93m", bg_code |-> "ESC[103m", style |-> 0, rgb |-> <<255, 255, 85>>],
    [name |-> <<"b", "r", "i", "g", "h", "t", "_", "b", "l", "u", "e">>, fg_code |-> "ESC[94m", bg_code |-> "ESC[104m", style |-> 0, rgb |-> <<85, 85, 255>>],
    [name |-> <<"b", "r", "i", "g", "h", "t", "_", "m", "a", "g", "e", "n", "t", "a">>, fg_code |-> "ESC[95m", bg_code |-> "ESC[105m", style |-> 0, rgb |-> <<255, 85, 255>>],
    [name |-> <<"b", "r", "i", "g", "h", "t", "_", "c", "y", "a", "n">>, fg_code |-> "ESC[96m", bg_code |-> "ESC[106m", style |-> 0, rgb |-> <<85, 255, 255>>],
    [name |-> <<"b", "r", "i", "g", "h", "t", "_", "w", "h", "i", "t", "e">>, fg_code |-> "ESC[97m", bg_code |-> "ESC[107m", style |-> 0, rgb |-> <<255, 255, 255>>],
    [name |-> <<"b", "o", "l", "d">>, fg_code |-> "ESC[1m", bg_code |-> "NULL", style |-> STYLE_BOLD, rgb |-> <<0, 0, 0>>],
    [name |-> <<"d", "i", "m">>, fg_code |-> "ESC[2m", bg_code |-> "NULL", style |-> STYLE_DIM, rgb |-> <<0, 0, 0>>],
    [name |-> <<"i", "t", "a", "l", "i", "c">>, fg_code |-> "ESC[3m", bg_code |-> "NULL", style |-> STYLE_ITALIC, rgb |-> <<0, 0, 0>>],
    [name |-> <<"u", "n", "d", "e", "r", "l", "i", "n", "e">>, fg_code |-> "ESC[4m", bg_code |-> "NULL", style |-> STYLE_UNDERLINE, rgb |-> <<0, 0, 0>>],
    [name |-> <<"i", "n", "v", "e", "r", "t">>, fg_code |-> "ESC[7m", bg_code |-> "NULL", style |-> STYLE_INVERT, rgb |-> <<0, 0, 0>>],
    [name |-> <<"s", "t", "r", "i", "k", "e", "t", "h", "r", "o", "u", "g", "h">>, fg_code |-> "ESC[9m", bg_code |-> "NULL", style |-> STYLE_STRIKE, rgb |-> <<0, 0, 0>>],
    [name |-> <<"r", "a", "i", "n", "b", "o", "w">>, fg_code |-> "NULL", bg_code |-> "NULL", style |-> STYLE_RAINBOW, rgb |-> <<0, 0, 0>>]
  >>
EMOJIS ==
  <<
    [name |-> <<"c", "h", "e", "c", "k">>, utf8 |-> <<"xE2", "x9C", "x85">>],
    [name |-> <<"c", "r", "o", "s", "s">>, utf8 |-> <<"xE2", "x9D", "x8C">>],
    [name |-> <<"w", "a", "r", "n", "i", "n", "g">>, utf8 |-> <<"xE2", "x9A", "xA0">>],
    [name |-> <<"i", "n", "f", "o">>, utf8 |-> <<"xE2", "x84", "xB9">>],
    [name |-> <<"a", "r", "r", "o", "w">>, utf8 |-> <<"xE2", "x9E", "xA1">>],
    [name |-> <<"g", "e", "a", "r">>, utf8 |-> <<"xE2", "x9A", "x99">>],
    [name |-> <<"c", "l", "o", "c", "k">>, utf8 |-> <<"xE2", "x8F", "xB0">>],
    [name |-> <<"h", "o", "u", "r", "g", "l", "a", "s", "s">>, utf8 |-> <<"xE2", "x8C", "x9B">>],
    [name |-> <<"t", "h", "u", "m", "b", "s", "_", "u", "p">>, utf8 |-> <<"xF0", "x9F", "x91", "x8D">>],
    [name |-> <<"t", "h", "u", "m", "b", "s", "_", "d", "o", "w", "n">>, utf8 |-> <<"xF0", "x9F", "x91", "x8E">>],
    [name |-> <<"s", "t", "a", "r">>, utf8 |-> <<"xE2", "xAD", "x90">>],
    [name |-> <<"f", "i", "r", "e">>, utf8 |-> <<"xF0", "x9F", "x94", "xA5">>],
    [name |-> <<"r", "o", "c", "k", "e", "t">>, utf8 |-> <<"xF0", "x9F", "x9A", "x80">>],
    [name |-> <<"z", "a", "p">>, utf8 |-> <<"xE2", "x9A", "xA1">>],
    [name |-> <<"b", "u", "g">>, utf8 |-> <<"xF0", "x9F", "x90", "x9B">>],
    [name |-> <<"w", "r", "e", "n", "c", "h">>, utf8 |-> <<"xF0", "x9F", "x94", "xA7">>],
    [name |-> <<"b", "e", "l", "l">>, utf8 |-> <<"xF0", "x9F", "x94", "x94">>],
    [name |-> <<"s", "p", "a", "r", "k", "l", "e", "s">>, utf8 |-> <<"xE2", "x9C", "xA8">>],
    [name |-> <<"p", "a", "c", "k", "a", "g", "e">>, utf8 |-> <<"xF0", "x9F", "x93", "xA6">>],
    [name |-> <<"l", "i", "n", "k">>, utf8 |-> <<"xF0", "x9F", "x94", "x97">>],
    [name |-> <<"s", "t", "o", "p">>, utf8 |-> <<"xF0", "x9F", "x9B", "x91">>],
    [name |-> <<"s", "m", "i", "l", "e">>, utf8 |-> <<"xF0", "x9F", "x98", "x8A">>],
    [name |-> <<"g", "r", "i", "n">>, utf8 |-> <<"xF0", "x9F", "x98", "x81">>],
    [name |-> <<"l", "a", "u", "g", "h">>, utf8 |-> <<"xF0", "x9F", "x98", "x82">>],
    [name |-> <<"w", "i", "n", "k">>, utf8 |-> <<"xF0", "x9F", "x98", "x89">>],
    [name |-> <<"h", "e", "a", "r", "t", "_", "e", "y", "e", "s">>, utf8 |-> <<"xF0", "x9F", "x98", "x8D">>],
    [name |-> <<"c", "o", "o", "l">>, utf8 |-> <<"xF0", "x9F", "x98", "x8E">>],
    [name |-> <<"t", "h", "i", "n", "k", "i", "n", "g">>, utf8 |-> <<"xF0", "x9F", "xA4", "x94">>],
    [name |-> <<"s", "h", "u", "s", "h">>, utf8 |-> <<"xF0", "x9F", "xA4", "xAB">>],
    [name |-> <<"c", "r", "y">>, utf8 |-> <<"xF0", "x9F", "x98", "xA2">>],
    [name |-> <<"s", "o", "b">>, utf8 |-> <<"xF0", "x9F", "x98", "xAD">>],
    [name |-> <<"a", "n", "g", "r", "y">>, utf8 |-> <<"xF0", "x9F", "x98", "xA0">>],
    [name |-> <<"s", "c", "r", "e", "a", "m">>, utf8 |-> <<"xF0", "x9F", "x98", "xB1">>],
    [name |-> <<"s", "w", "e", "a", "t">>, utf8 |-> <<"xF0", "x9F", "x98", "x93">>],
    [name |-> <<"r", "e", "l", "i", "e", "v", "e", "d">>, utf8 |-> <<"xF0", "x9F", "x98", "x8C">>],
    [name |-> <<"s", "l", "e", "e", "p", "i", "n", "g">>, utf8 |-> <<"xF0", "x9F", "x98", "xB4">>],
    [name |-> <<"s", "k", "u", "l", "l">>, utf8 |-> <<"xF0", "x9F", "x92", "x80">>],
    [name |-> <<"w", "a", "v", "e">>, utf8 |-> <<"xF0", "x9F", "x91", "x8B">>],
    [name |-> <<"c", "l", "a", "p">>, utf8 |-> <<"xF0", "x9F", "x91", "x8F">>],
    [name |-> <<"p", "r", "a", "y">>, utf8 |-> <<"xF0", "x9F", "x99", "x8F">>],
    [name |-> <<"m", "u", "s", "c", "l", "e">>, utf8 |-> <<"xF0", "x9F", "x92", "xAA">>],
    [name |-> <<"o", "k", "_", "h", "a", "n", "d">>, utf8 |-> <<"xF0", "x9F", "x91", "x8C">>],
    [name |-> <<"v", "i", "c", "t", "o", "r", "y">>, utf8 |-> <<"xE2", "x9C", "x8C">>],
    [name |-> <<"p", "o", "i", "n", "t", "_", "u", "p">>, utf8 |-> <<"xF0", "x9F", "x91", "x86">>],
    [name |-> <<"p", "o", "i", "n", "t", "_", "d", "o", "w", "n">>, utf8 |-> <<"xF0", "x9F", "x91", "x87">>],
    [name |-> <<"p", "o", "i", "n", "t", "_", "l", "e", "f", "t">>, utf8 |-> <<"xF0", "x9F", "x91", "x88">>],
    [name |-> <<"p", "o", "i", "n", "t", "_", "r", "i", "g", "h", "t">>, utf8 |-> <<"xF0", "x9F", "x91", "x89">>],
    [name |-> <<"r", "a", "i", "s", "e", "d", "_", "h", "a", "n", "d">>, utf8 |-> <<"xE2", "x9C", "x8B">>],
    [name |-> <<"p", "i", "n", "c", "h">>, utf8 |-> <<"xF0", "x9F", "xA4", "x8F">>],
    [name |-> <<"g", "r", "e", "e", "n", "_", "c", "h", "e", "c", "k">>, utf8 |-> <<"xE2", "x9C", "x85">>],
    [name |-> <<"c", "h", "e", "c", "k", "_", "b", "o", "x">>, utf8 |-> <<"xE2", "x98", "x91">>],
    [name |-> <<"b", "a", "l", "l", "o", "t", "_", "x">>, utf8 |-> <<"xE2", "x9C", "x97">>],
    [name |-> <<"h", "e", "a", "v", "y", "_", "x">>, utf8 |-> <<"xE2", "x9C", "x98">>],
    [name |-> <<"c", "r", "o", "s", "s", "_", "b", "o", "x">>, utf8 |-> <<"xE2", "x9D", "x8E">>],
    [name |-> <<"h", "e", "a", "r", "t">>, utf8 |-> <<"xE2", "x9D", "xA4">>],
    [name |-> <<"b", "r", "o", "k", "e", "n", "_", "h", "e", "a", "r", "t">>, utf8 |-> <<"xF0", "x9F", "x92", "x94">>],
    [name |-> <<"q", "u", "e", "s", "t", "i", "o", "n">>, utf8 |-> <<"xE2", "x9D", "x93">>],
    [name |-> <<"e", "x", "c", "l", "a", "m", "a", "t", "i", "o", "n">>, utf8 |-> <<"xE2", "x9D", "x97">>],
    [name |-> <<"b", "a", "n", "g", "b", "a", "n", "g">>, utf8 |-> <<"xE2", "x80", "xBC">>],
    [name |-> <<"p", "l", "u", "s">>, utf8 |-> <<"xE2", "x9E", "x95">>],
    [name |-> <<"m", "i", "n", "u", "s">>, utf8 |-> <<"xE2", "x9E", "x96">>],
    [name |-> <<"m", "u", "l", "t", "i", "p", "l", "y">>, utf8 |-> <<"xE2", "x9C", "x96">>],
    [name |-> <<"d", "i", "v", "i", "d", "e">>, utf8 |-> <<"xE2", "x9E", "x97">>],
    [name |-> <<"i", "n", "f", "i", "n", "i", "t", "y">>, utf8 |-> <<"xE2", "x99", "xBE">>],
    [name |-> <<"r", "e", "c", "y", "c", "l", "e">>, utf8 |-> <<"xE2", "x99", "xBB">>],
    [name |-> <<"c", "o", "p", "y", "r", "i", "g", "h", "t">>, utf8 |-> <<"xC2", "xA9">>],
    [name |-> <<"a", "r", "r", "o", "w", "_", "u", "p">>, utf8 |-> <<"xE2", "xAC", "x86">>],
    [name |-> <<"a", "r", "r", "o", "w", "_", "d", "o", "w", "n">>, utf8 |-> <<"xE2", "xAC", "x87">>],
    [name |-> <<"a", "r", "r", "o", "w", "_", "l", "e", "f", "t">>, utf8 |-> <<"xE2", "xAC", "x85">>],
    [name |-> <<"a", "r", "r", "o", "w", "_", "r", "i", "g", "h", "t">>, utf8 |-> <<"xE2", "x9E", "xA1">>],
    [name |-> <<"a", "r", "r", "o", "w", "_", "u", "p", "_", "d", "o", "w", "n">>, utf8 |-> <<"xE2", "x86", "x95">>],
    [name |-> <<"l", "e", "f", "t", "_", "r", "i", "g", "h", "t">>, utf8 |-> <<"xE2", "x86", "x94">>],
    [name |-> <<"b", "a", "c", "k">>, utf8 |-> <<"xF0", "x9F", "x94", "x99">>],
    [name |-> <<"f", "o", "r", "w", "a", "r", "d">>, utf8 |-> <<"xF0", "x9F", "x94", "x9C">>],
    [name |-> <<"r", "e", "f", "r", "e", "s", "h">>, utf8 |-> <<"xF0", "x9F", "x94", "x84">>],
    [name |-> <<"k", "e", "y">>, utf8 |-> <<"xF0", "x9F", "x94", "x91">>],
    [name |-> <<"l", "o", "c", "k">>, utf8 |-> <<"xF0", "x9F", "x94", "x92">>],
    [name |-> <<"u", "n", "l", "o", "c", "k">>, utf8 |-> <<"xF0", "x9F", "x94", "x93">>],
    [name |-> <<"s", "h", "i", "e", "l", "d">>, utf8 |-> <<"xF0", "x9F", "x9B", "xA1">>],
    [name |-> <<"b", "o", "m", "b">>, utf8 |-> <<"xF0", "x9F", "x92", "xA3">>],
    [name |-> <<"h", "a", "m", "m", "e", "r">>, utf8 |-> <<"xF0", "x9F", "x94", "xA8">>],
    [name |-> <<"s", "c", "i", "s", "s", "o", "r", "s">>, utf8 |-> <<"xE2", "x9C", "x82">>],
    [name |-> <<"p", "e", "n", "c", "i", "l">>, utf8 |-> <<"xE2", "x9C", "x8F">>],
    [name |-> <<"p", "e", "n">>, utf8 |-> <<"xF0", "x9F", "x96", "x8A">>],
    [name |-> <<"m", "a", "g", "n", "i", "f", "i", "e", "r">>, utf8 |-> <<"xF0", "x9F", "x94", "x8D">>],
    [name |-> <<"f", "l", "a", "s", "h", "l", "i", "g", "h", "t">>, utf8 |-> <<"xF0", "x9F", "x94", "xA6">>],
    [name |-> <<"c", "l", "i", "p", "b", "o", "a", "r", "d">>, utf8 |-> <<"xF0", "x9F", "x93", "x8B">>],
    [name |-> <<"c", "a", "l", "e", "n", "d", "a", "r">>, utf8 |-> <<"xF0", "x9F", "x93", "x85">>],
    [name |-> <<"e", "n", "v", "e", "l", "o", "p", "e">>, utf8 |-> <<"xE2", "x9C", "x89">>],
    [name |-> <<"p", "h", "o", "n", "e">>, utf8 |-> <<"xF0", "x9F", "x93", "xB1">>],
    [name |-> <<"l", "a", "p", "t", "o", "p">>, utf8 |-> <<"xF0", "x9F", "x92", "xBB">>],
    [name |-> <<"d", "e", "s", "k", "t", "o", "p">>, utf8 |-> <<"xF0", "x9F", "x96", "xA5">>],
    [name |-> <<"p", "r", "i", "n", "t", "e", "r">>, utf8 |-> <<"xF0", "x9F", "x96", "xA8">>],
    [name |-> <<"f", "o", "l", "d", "e", "r">>, utf8 |-> <<"xF0", "x9F", "x93", "x81">>],
    [name |-> <<"f", "i", "l", "e">>, utf8 |-> <<"xF0", "x9F", "x93", "x84">>],
    [name |-> <<"t", "r", "a", "s", "h">>, utf8 |-> <<"xF0", "x9F", "x97", "x91">>],
    [name |-> <<"s", "u", "n">>, utf8 |-> <<"xE2", "x98", "x80">>],
    [name |-> <<"m", "o", "o", "n">>, utf8 |-> <<"xF0", "x9F", "x8C", "x99">>],
    [name |-> <<"c", "l", "o", "u", "d">>, utf8 |-> <<"xE2", "x98", "x81">>],
    [name |-> <<"r", "a", "i", "n">>, utf8 |-> <<"xF0", "x9F", "x8C", "xA7">>],
    [name |-> <<"s", "n", "o", "w">>, utf8 |-> <<"xE2", "x9D", "x84">>],
    [name |-> <<"e", "a", "r", "t", "h">>, utf8 |-> <<"xF0", "x9F", "x8C", "x8D">>],
    [name |-> <<"t", "r", "e", "e">>, utf8 |-> <<"xF0", "x9F", "x8C", "xB3">>],
    [name |-> <<"l", "e", "a", "f">>, utf8 |-> <<"xF0", "x9F", "x8D", "x83">>],
    [name |-> <<"f", "l", "o", "w", "e", "r">>, utf8 |-> <<"xF0", "x9F", "x8C", "xB8">>],
    [name |-> <<"s", "e", "e", "d", "l", "i", "n", "g">>, utf8 |-> <<"xF0", "x9F", "x8C", "xB1">>],
    [name |-> <<"c", "o", "f", "f", "e", "e">>, utf8 |-> <<"xE2", "x98", "x95">>],
    [name |-> <<"b", "e", "e", "r">>, utf8 |-> <<"xF0", "x9F", "x8D", "xBA">>],
    [name |-> <<"p", "i", "z", "z", "a">>, utf8 |-> <<"xF0", "x9F", "x8D", "x95">>],
    [name |-> <<"c", "a", "k", "e">>, utf8 |-> <<"xF0", "x9F", "x8E", "x82">>],
    [name |-> <<"a", "p", "p", "l", "e">>, utf8 |-> <<"xF0", "x9F", "x8D", "x8E">>],
    [name |-> <<"d", "o", "g">>, utf8 |-> <<"xF0", "x9F", "x90", "xB6">>],
    [name |-> <<"c", "a", "t">>, utf8 |-> <<"xF0", "x9F", "x90", "xB1">>],
    [name |-> <<"s", "n", "a", "k", "e">>, utf8 |-> <<"xF0", "x9F", "x90", "x8D">>],
    [name |-> <<"b", "i", "r", "d">>, utf8 |-> <<"xF0", "x9F", "x90", "xA6">>],
    [name |-> <<"f", "i", "s", "h">>, utf8 |-> <<"xF0", "x9F", "x90", "x9F">>],
    [name |-> <<"b", "u", "t", "t", "e", "r", "f", "l", "y">>, utf8 |-> <<"xF0", "x9F", "xA6", "x8B">>],
    [name |-> <<"b", "e", "e">>, utf8 |-> <<"xF0", "x9F", "x90", "x9D">>],
    [name |-> <<"a", "n", "t">>, utf8 |-> <<"xF0", "x9F", "x90", "x9C">>],
    [name |-> <<"s", "p", "i", "d", "e", "r">>, utf8 |-> <<"xF0", "x9F", "x95", "xB7">>],
    [name |-> <<"u", "n", "i", "c", "o", "r", "n">>, utf8 |-> <<"xF0", "x9F", "xA6", "x84">>],
    [name |-> <<"c", "a", "r">>, utf8 |-> <<"xF0", "x9F", "x9A", "x97">>],
    [name |-> <<"a", "i", "r", "p", "l", "a", "n", "e">>, utf8 |-> <<"xE2", "x9C", "x88">>],
    [name |-> <<"s", "h", "i", "p">>, utf8 |-> <<"xF0", "x9F", "x9A", "xA2">>],
    [name |-> <<"b", "i", "c", "y", "c", "l", "e">>, utf8 |-> <<"xF0", "x9F", "x9A", "xB2">>],
    [name |-> <<"t", "r", "a", "i", "n">>, utf8 |-> <<"xF0", "x9F", "x9A", "x86">>],
    [name |-> <<"f", "u", "e", "l">>, utf8 |-> <<"xE2", "x9B", "xBD">>],
    [name |-> <<"t", "r", "o", "p", "h", "y">>, utf8 |-> <<"xF0", "x9F", "x8F", "x86">>],
    [name |-> <<"m", "e", "d", "a", "l">>, utf8 |-> <<"xF0", "x9F", "x8F", "x85">>],
    [name |-> <<"c", "r", "o", "w", "n">>, utf8 |-> <<"xF0", "x9F", "x91", "x91">>],
    [name |-> <<"g", "e", "m">>, utf8 |-> <<"xF0", "x9F", "x92", "x8E">>],
    [name |-> <<"m", "o", "n", "e", "y">>, utf8 |-> <<"xF0", "x9F", "x92", "xB0">>],
    [name |-> <<"g", "i", "f", "t">>, utf8 |-> <<"xF0", "x9F", "x8E", "x81">>],
    [name |-> <<"r", "i", "b", "b", "o", "n">>, utf8 |-> <<"xF0", "x9F", "x8E", "x80">>],
    [name |-> <<"b", "a", "l", "l", "o", "o", "n">>, utf8 |-> <<"xF0", "x9F", "x8E", "x88">>],
    [name |-> <<"p", "a", "r", "t", "y">>, utf8 |-> <<"xF0", "x9F", "x8E", "x89">>],
    [name |-> <<"c", "o", "n", "f", "e", "t", "t", "i">>, utf8 |-> <<"xF0", "x9F", "x8E", "x8A">>],
    [name |-> <<"m", "u", "s", "i", "c">>, utf8 |-> <<"xF0", "x9F", "x8E", "xB5">>],
    [name |-> <<"f", "i", "l", "m">>, utf8 |-> <<"xF0", "x9F", "x8E", "xAC">>],
    [name |-> <<"c", "a", "m", "e", "r", "a">>, utf8 |-> <<"xF0", "x9F", "x93", "xB7">>],
    [name |-> <<"a", "r", "t">>, utf8 |-> <<"xF0", "x9F", "x8E", "xA8">>],
    [name |-> <<"p", "a", "l", "e", "t", "t", "e">>, utf8 |-> <<"xF0", "x9F", "x8E", "xA8">>],
    [name |-> <<"m", "i", "c", "r", "o", "p", "h", "o", "n", "e">>, utf8 |-> <<"xF0", "x9F", "x8E", "xA4">>],
    [name |-> <<"p", "i", "n">>, utf8 |-> <<"xF0", "x9F", "x93", "x8C">>],
    [name |-> <<"p", "a", "p", "e", "r", "c", "l", "i", "p">>, utf8 |-> <<"xF0", "x9F", "x93", "x8E">>],
    [name |-> <<"e", "y", "e">>, utf8 |-> <<"xF0", "x9F", "x91", "x81">>],
    [name |-> <<"b", "u", "l", "b">>, utf8 |-> <<"xF0", "x9F", "x92", "xA1">>],
    [name |-> <<"b", "a", "t", "t", "e", "r", "y">>, utf8 |-> <<"xF0", "x9F", "x94", "x8B">>],
    [name |-> <<"p", "l", "u", "g">>, utf8 |-> <<"xF0", "x9F", "x94", "x8C">>],
    [name |-> <<"s", "a", "t", "e", "l", "l", "i", "t", "e">>, utf8 |-> <<"xF0", "x9F", "x9B", "xB0">>],
    [name |-> <<"f", "l", "a", "g">>, utf8 |-> <<"xF0", "x9F", "x9A", "xA9">>],
    [name |-> <<"l", "a", "b", "e", "l">>, utf8 |-> <<"xF0", "x9F", "x8F", "xB7">>],
    [name |-> <<"m", "e", "m", "o">>, utf8 |-> <<"xF0", "x9F", "x93", "x9D">>],
    [name |-> <<"r", "e", "d", "_", "b", "o", "x">>, utf8 |-> <<"xF0", "x9F", "x9F", "xA5">>],
    [name |-> <<"o", "r", "a", "n", "g", "e", "_", "b", "o", "x">>, utf8 |-> <<"xF0", "x9F", "x9F", "xA7">>],
    [name |-> <<"y", "e", "l", "l", "o", "w", "_", "b", "o", "x">>, utf8 |-> <<"xF0", "x9F", "x9F", "xA8">>],
    [name |-> <<"g", "r", "e", "e", "n", "_", "b", "o", "x">>, utf8 |-> <<"xF0", "x9F", "x9F", "xA9">>],
    [name |-> <<"b", "l", "u", "e", "_", "b", "o", "x">>, utf8 |-> <<"xF0", "x9F", "x9F", "xA6">>],
    [name |-> <<"p", "u", "r", "p", "l", "e", "_", "b", "o", "x">>, utf8 |-> <<"xF0", "x9F", "x9F", "xAA">>],
    [name |-> <<"b", "r", "o", "w", "n", "_", "b", "o", "x">>, utf8 |-> <<"xF0", "x9F", "x9F", "xAB">>],
    [name |-> <<"w", "h", "i", "t", "e", "_", "b", "o", "x">>, utf8 |-> <<"xE2", "xAC", "x9C">>],
    [name |-> <<"b", "l", "a", "c", "k", "_", "b", "o", "x">>, utf8 |-> <<"xE2", "xAC", "x9B">>]
  >>

RAINBOW ==
  << 196, 202, 208, 214, 220, 226,
     190, 154, 118,  82,  46,
      48,  51,
      45,  39,  33,
      63,  93, 129, 165, 201 >>

RAINBOW_LEN == Len(RAINBOW)

lookup_from(table, name, i) ==
  LET hits == {k \in i..Len(table) : table[k].name = name}
  IN IF hits = {} THEN 0
     ELSE CHOOSE k \in hits : \A h \in hits : k <= h

(* the ASCII letters, and a text with its letters in lower or upper case *)
LowerAlpha == <<"a", "b", "c", "d", "e", "f", "g", "h", "i", "j", "k", "l", "m",
                "n", "o", "p", "q", "r", "s", "t", "u", "v", "w", "x", "y", "z">>
UpperAlpha == <<"A", "B", "C", "D", "E", "F", "G", "H", "I", "J", "K", "L", "M",
                "N", "O", "P", "Q", "R", "S", "T", "U", "V", "W", "X", "Y", "Z">>
tolower(c) ==
  IF \E k \in 1..26 : UpperAlpha[k] = c
  THEN LowerAlpha[CHOOSE k \in 1..26 : UpperAlpha[k] = c] ELSE c
toupper(c) ==
  IF \E k \in 1..26 : LowerAlpha[k] = c
  THEN UpperAlpha[CHOOSE k \in 1..26 : LowerAlpha[k] = c] ELSE c
ToLower(s) == [i \in 1..Len(s) |-> tolower(s[i])]
ToUpper(s) == [i \in 1..Len(s) |-> toupper(s[i])]

(* lookup_emoji comparing without regard to the case of ASCII letters *)
lookup_emoji_nocase(name) == lookup_from(EMOJIS, ToLower(name), 1)

(* index of the first entry of EMOJIS named name, 0 for NULL *)
lookup_emoji(name) == lookup_from(EMOJIS, name, 1)

(* index of the first entry of ATTRS named name, 0 for NULL *)
lookup_attr(name) == lookup_from(ATTRS, name, 1)

(* index in s of the " on " separator, 0 for NULL *)
RECURSIVE find_on_from(_, _)
find_on_from(s, i) ==
  IF i + 3 > Len(s) THEN 0
  ELSE IF s[i] = " " /\ s[i+1] = "o" /\ s[i+2] = "n" /\ s[i+3] = " " THEN i
  ELSE find_on_from(s, i + 1)

find_on(s) == IF Len(s) < 4 THEN 0 ELSE find_on_from(s, 1)

(* value of a hexadecimal digit, -1 for any other byte *)
nibble(c) ==
  LET v == Ord(c) IN
  IF v >= Ord("0") /\ v <= Ord("9") THEN v - Ord("0")
  ELSE IF v >= Ord("A") /\ v <= Ord("F") THEN v - Ord("A") + 10
  ELSE IF v >= Ord("a") /\ v <= Ord("f") THEN v - Ord("a") + 10
  ELSE -1

RECURSIVE parse_hex(_, _, _)
parse_hex(s, i, cp) ==
  IF i > Len(s) THEN cp
  ELSE IF nibble(s[i]) < 0 THEN -1
  ELSE parse_hex(s, i + 1, cp * 16 + nibble(s[i]))

(* try_parse_unicode without the rejection of the surrogate range *)
try_parse_unicode_surrogates(s) ==
  IF Len(s) < 3 \/ Len(s) > 8 \/ s[1] # "U" \/ s[2] # "-" THEN 0
  ELSE LET cp == parse_hex(s, 3, 0) IN
       IF cp < 0 THEN 0
       ELSE IF cp = 0 \/ cp > 1114111 THEN 0
       ELSE cp

(* the codepoint of U-XXXX, 0 when the parse fails *)
try_parse_unicode(s) ==
  IF Len(s) < 3 \/ Len(s) > 8 \/ s[1] # "U" \/ s[2] # "-" THEN 0
  ELSE LET cp == parse_hex(s, 3, 0) IN
       IF cp < 0 THEN 0
       ELSE IF cp = 0 \/ cp > 1114111 THEN 0
       ELSE IF cp >= 55296 /\ cp <= 57343 THEN 0
       ELSE cp

(* ----------------------------------------------------------------------- *)
(* Markup tokenizer                                                        *)
(* ----------------------------------------------------------------------- *)

(* index of the first c in s at or after from, 0 for NULL *)
RECURSIVE strchr(_, _, _)
strchr(s, from, c) ==
  IF from > Len(s) THEN 0
  ELSE IF s[from] = c THEN from
  ELSE strchr(s, from + 1, c)

MarkupToken(type, ptr, len, ch, emoji, codepoint, pos) ==
  [type |-> type, ptr |-> ptr, len |-> len, ch |-> ch, emoji |-> emoji,
   codepoint |-> codepoint, pos |-> pos]

(* first position at or after i that holds no UTF-8 continuation byte *)
RECURSIVE drain(_, _)
drain(s, i) ==
  IF i <= Len(s) /\ Ord(s[i]) >= 128 /\ Ord(s[i]) <= 191 THEN drain(s, i + 1) ELSE i

(* next_markup_token stepping over one byte of an escape pair, not two *)
next_markup_token_one_byte(s, p) ==
  LET c0 == At(s, p)
      c1 == At(s, p + 1)
      e  == strchr(s, p + 1, "]")
      end == strchr(s, p + 1, ":")
      name == SubSeq(s, p + 1, end - 1)
      em == IF end > p + 1 THEN lookup_emoji(name) ELSE 0
      cp == IF end > p + 1 THEN try_parse_unicode(name) ELSE 0
      q  == drain(s, p + 1)
  IN
  IF c0 = NUL THEN MarkupToken("TOK_END", 0, 0, NUL, 0, 0, p)
  ELSE IF c0 = "[" /\ c1 = "[" THEN MarkupToken("TOK_ESC_BRACKET", 0, 0, "[", 0, 0, p + 1)
  ELSE IF c0 = "]" /\ c1 = "]" THEN MarkupToken("TOK_ESC_BRACKET", 0, 0, "]", 0, 0, p + 1)
  ELSE IF c0 = ":" /\ c1 = ":" THEN MarkupToken("TOK_ESC_COLON", 0, 0, ":", 0, 0, p + 1)
  ELSE IF c0 = "[" /\ e # 0 THEN MarkupToken("TOK_TAG", p + 1, e - (p + 1), NUL, 0, 0, e + 1)
  ELSE IF c0 = ":" /\ em # 0 THEN MarkupToken("TOK_EMOJI", 0, 0, NUL, em, 0, end + 1)
  ELSE IF c0 = ":" /\ cp # 0 THEN MarkupToken("TOK_UNICODE", 0, 0, NUL, 0, cp, end + 1)
  ELSE MarkupToken("TOK_CHAR", p, q - p, c0, 0, 0, q)

(* next_markup_token taking a character for two bytes at the least *)
next_markup_token_past_end(s, p) ==
  LET c0 == At(s, p)
      c1 == At(s, p + 1)
      e  == strchr(s, p + 1, "]")
      end == strchr(s, p + 1, ":")
      name == SubSeq(s, p + 1, end - 1)
      em == IF end > p + 1 THEN lookup_emoji(name) ELSE 0
      cp == IF end > p + 1 THEN try_parse_unicode(name) ELSE 0
      q  == drain(s, p + 2)
  IN
  IF c0 = NUL THEN MarkupToken("TOK_END", 0, 0, NUL, 0, 0, p)
  ELSE IF c0 = "[" /\ c1 = "[" THEN MarkupToken("TOK_ESC_BRACKET", 0, 0, "[", 0, 0, p + 2)
  ELSE IF c0 = "]" /\ c1 = "]" THEN MarkupToken("TOK_ESC_BRACKET", 0, 0, "]", 0, 0, p + 2)
  ELSE IF c0 = ":" /\ c1 = ":" THEN MarkupToken("TOK_ESC_COLON", 0, 0, ":", 0, 0, p + 2)
  ELSE IF c0 = "[" /\ e # 0 THEN MarkupToken("TOK_TAG", p + 1, e - (p + 1), NUL, 0, 0, e + 1)
  ELSE IF c0 = ":" /\ em # 0 THEN MarkupToken("TOK_EMOJI", 0, 0, NUL, em, 0, end + 1)
  ELSE IF c0 = ":" /\ cp # 0 THEN MarkupToken("TOK_UNICODE", 0, 0, NUL, 0, cp, end + 1)
  ELSE MarkupToken("TOK_CHAR", p, q - p, c0, 0, 0, q)

(* The token at position p of s; .pos is the position after it.            *)
(* .ptr/.len delimit the content of a tag or the bytes of a character in s.          *)
next_markup_token(s, p) ==
  LET c0 == At(s, p)
      c1 == At(s, p + 1)
      e  == strchr(s, p + 1, "]")
      end == strchr(s, p + 1, ":")
      name == SubSeq(s, p + 1, end - 1)
      em == IF end > p + 1 THEN lookup_emoji(name) ELSE 0
      cp == IF end > p + 1 THEN try_parse_unicode(name) ELSE 0
      q  == drain(s, p + 1)
  IN
  IF c0 = NUL THEN MarkupToken("TOK_END", 0, 0, NUL, 0, 0, p)
  ELSE IF c0 = "[" /\ c1 = "[" THEN MarkupToken("TOK_ESC_BRACKET", 0, 0, "[", 0, 0, p + 2)
  ELSE IF c0 = "]" /\ c1 = "]" THEN MarkupToken("TOK_ESC_BRACKET", 0, 0, "]", 0, 0, p + 2)
  ELSE IF c0 = ":" /\ c1 = ":" THEN MarkupToken("TOK_ESC_COLON", 0, 0, ":", 0, 0, p + 2)
  ELSE IF c0 = "[" /\ e # 0 THEN MarkupToken("TOK_TAG", p + 1, e - (p + 1), NUL, 0, 0, e + 1)
  ELSE IF c0 = ":" /\ em # 0 THEN MarkupToken("TOK_EMOJI", 0, 0, NUL, em, 0, end + 1)
  ELSE IF c0 = ":" /\ cp # 0 THEN MarkupToken("TOK_UNICODE", 0, 0, NUL, 0, cp, end + 1)
  ELSE MarkupToken("TOK_CHAR", p, q - p, c0, 0, 0, q)

(* ----------------------------------------------------------------------- *)
(* Output plumbing                                                         *)
(*                                                                         *)
(* The operators below work on m, a record of the file's static variables  *)
(* (see Statics) together with the sink: m.out is the sequence of calls    *)
(* the sink has received, a byte or escape string per putc run and "FLUSH" *)
(* per call of the flush function.  m.fault records a call through a NULL   *)
(* function pointer.                                                       *)
(* ----------------------------------------------------------------------- *)

FLUSH == "FLUSH"

putc(m, ch) ==
  IF m.putc_function = "capture_putc" THEN [m EXCEPT !.out = Append(@, ch)]
  ELSE IF m.putc_function = "ansi_noop_putc" THEN m
  ELSE [m EXCEPT !.fault = TRUE]

flush(m) ==
  IF m.flush_function = "capture_flush" THEN [m EXCEPT !.out = Append(@, FLUSH)]
  ELSE IF m.flush_function = "ansi_noop_flush" THEN m
  ELSE [m EXCEPT !.fault = TRUE]

(* the string a code pointer points to: a table literal, or the contents   *)
(* of one of the two numeric code buffers                                  *)
Deref(m, ptr) ==
  IF ptr = "m_num_fg" THEN m.num_fg
  ELSE IF ptr = "m_num_bg" THEN m.num_bg
  ELSE ptr

(* one sink element per non-empty string: the bytes of an escape sequence *)
(* are kept together                                                      *)
output_string(m, ptr) ==
  IF ptr = NULL \/ Deref(m, ptr) = "" THEN m ELSE putc(m, Deref(m, ptr))

RECURSIVE emit_bytes(_, _, _, _)
emit_bytes(m, s, i, n) ==
  IF n = 0 THEN m ELSE emit_bytes(putc(m, s[i]), s, i + 1, n - 1)

(* emit_token_bytes writing the first byte of the character only *)
emit_token_bytes_first(m, s, tok) == putc(m, tok.ch)

(* all bytes of a TOK_CHAR token *)
emit_token_bytes(m, s, tok) == emit_bytes(m, s, tok.ptr, tok.len)

(* ----------------------------------------------------------------------- *)
(* Tag state                                                               *)
(* ----------------------------------------------------------------------- *)

TagState(fg, bg, styles) == [fg_code |-> fg, bg_code |-> bg, styles |-> styles]

GradientState(start, end, len, idx) ==
  [start |-> start, end |-> end, len |-> len, idx |-> idx]

style_string(m, bit, code) ==
  IF HasBit(m.tag_state.styles, bit) THEN output_string(m, code) ELSE m

reapply_state(m) ==
  LET m1 == IF m.tag_state.fg_code # NULL THEN output_string(m, m.tag_state.fg_code) ELSE m
      m2 == IF m1.tag_state.bg_code # NULL THEN output_string(m1, m1.tag_state.bg_code) ELSE m1
      m3 == style_string(m2, STYLE_BOLD, BOLD)
      m4 == style_string(m3, STYLE_DIM, DIM)
      m5 == style_string(m4, STYLE_ITALIC, ITALIC)
      m6 == style_string(m5, STYLE_UNDERLINE, UNDERLINE)
      m7 == style_string(m6, STYLE_INVERT, INVERT)
  IN style_string(m7, STYLE_STRIKE, STRIKETHROUGH)

(* ----------------------------------------------------------------------- *)
(* Tag words and numbers                                                   *)
(* ----------------------------------------------------------------------- *)

RECURSIVE skip_space(_, _)
skip_space(s, i) == IF i <= Len(s) /\ isspace(s[i]) THEN skip_space(s, i + 1) ELSE i

RECURSIVE skip_word(_, _)
skip_word(s, i) == IF i <= Len(s) /\ ~isspace(s[i]) THEN skip_word(s, i + 1) ELSE i

(* the whitespace-separated words of s, in order (the word loop of         *)
(* emit_tag and emit_close_tag)                                            *)
RECURSIVE words_from(_, _)
words_from(s, i) ==
  LET w == skip_space(s, i)
      e == skip_word(s, w)
  IN IF w > Len(s) THEN <<>> ELSE <<SubSeq(s, w, e - 1)>> \o words_from(s, e)

Words(s) == words_from(s, 1)

(* s without leading and trailing whitespace *)
RECURSIVE rtrim(_)
rtrim(s) == IF Len(s) > 0 /\ isspace(s[Len(s)]) THEN rtrim(SubSeq(s, 1, Len(s) - 1)) ELSE s

trim(s) == rtrim(SubSeq(s, skip_space(s, 1), Len(s)))

isdigit(c) == c \in {"0", "1", "2", "3", "4", "5", "6", "7", "8", "9"}

(* strtol saturates at LONG_MAX; every caller clamps the value to 0..255,  *)
(* so the magnitude is kept only up to StrtolCap                           *)
StrtolCap == 100000

RECURSIVE digits(_, _, _)
digits(s, i, acc) ==
  IF i <= Len(s) /\ isdigit(s[i])
  THEN digits(s, i + 1, IF acc * 10 + (Ord(s[i]) - Ord("0")) > StrtolCap THEN StrtolCap
                        ELSE acc * 10 + (Ord(s[i]) - Ord("0")))
  ELSE [val |-> acc, end |-> i]

(* strtol(s + from - 1, &endptr, 10): .ok is endptr != start *)
strtol(s, from) ==
  LET i == skip_space(s, from)
      neg == At(s, i) = "-"
      j == IF At(s, i) \in {"-", "+"} THEN i + 1 ELSE i
      d == digits(s, j, 0)
  IN [ok |-> d.end > j, val |-> IF neg THEN -d.val ELSE d.val]

(* clamp255 keeping the low eight bits instead of clamping *)
clamp255_wraps(val) == val % 256

clamp255(val) == IF val < 0 THEN 0 ELSE IF val > 255 THEN 255 ELSE val

fg256(code) == "ESC[38;5;" \o ToString(code) \o "m"
bg256(code) == "ESC[48;5;" \o ToString(code) \o "m"

has_prefix(w, pre) == Len(w) >= Len(pre) /\ SubSeq(w, 1, Len(pre)) = pre

(* ----------------------------------------------------------------------- *)
(* Tag emission                                                            *)
(* ----------------------------------------------------------------------- *)

(* does the tag token close the effect called name, or everything? *)
closes_effect(s, tok, name) ==
  /\ At(s, tok.ptr) = "/"
  /\ \/ tok.len = 1
     \/ /\ tok.len >= Len(name) + 1
        /\ SubSeq(s, tok.ptr + 1, tok.ptr + Len(name)) = name
        /\ \/ tok.len = Len(name) + 1
           \/ At(s, tok.ptr + Len(name) + 1) = " "

(* visible characters from p up to [/name] or [/], at least 1 *)
RECURSIVE count_effect_chars(_, _, _, _)
count_effect_chars(s, p, name, count) ==
  LET tok == next_markup_token(s, p) IN
  IF tok.type = "TOK_END" THEN (IF count > 0 THEN count ELSE 1)
  ELSE IF tok.type = "TOK_TAG" THEN
         IF closes_effect(s, tok, name) THEN (IF count > 0 THEN count ELSE 1)
         ELSE count_effect_chars(s, tok.pos, name, count)
  ELSE IF tok.type = "TOK_CHAR" THEN
         count_effect_chars(s, tok.pos, name,
                            IF tok.ch \notin {" ", "\t", "\n"} THEN count + 1 ELSE count)
  ELSE count_effect_chars(s, tok.pos, name, count + 1)

w_gradient == <<"g", "r", "a", "d", "i", "e", "n", "t">>
w_rainbow  == <<"r", "a", "i", "n", "b", "o", "w">>
w_fg       == <<"f", "g", ":">>
w_bg       == <<"b", "g", ":">>

(* parse_gradient_tag taking every known name, styles too *)
parse_gradient_tag_any_known(m, args) ==
  LET ws == Words(args)
      c1 == IF Len(ws) >= 1 THEN ws[1] ELSE <<>>
      c2 == IF Len(ws) >= 2 THEN ws[2] ELSE <<>>
      a1 == lookup_attr(c1)
      a2 == lookup_attr(c2)
  IN IF a1 = 0 \/ a2 = 0 THEN m
     ELSE [m EXCEPT !.gradient = GradientState(ATTRS[a1].rgb, ATTRS[a2].rgb, 0, 0),
                    !.tag_state.styles = SetBit(@, STYLE_GRADIENT)]

(* [gradient color1 color2]: args is the tag content after "gradient " *)
parse_gradient_tag(m, args) ==
  LET ws == Words(args)
      c1 == IF Len(ws) >= 1 THEN ws[1] ELSE <<>>
      c2 == IF Len(ws) >= 2 THEN ws[2] ELSE <<>>
      a1 == lookup_attr(c1)
      a2 == lookup_attr(c2)
  IN IF a1 = 0 \/ a2 = 0 THEN m
     ELSE IF ATTRS[a1].style # 0 \/ ATTRS[a2].style # 0 THEN m
     ELSE [m EXCEPT !.gradient = GradientState(ATTRS[a1].rgb, ATTRS[a2].rgb, 0, 0),
                    !.tag_state.styles = SetBit(@, STYLE_GRADIENT)]

(* close_fg_word with the active colour cleared instead of replaced by   *)
(* the default                                                          *)
close_fg_word_clears(m, w) ==
  LET a == lookup_attr(w)
      n == strtol(w, 4)
  IN IF a # 0 THEN
       IF ATTRS[a].style # 0
       THEN [m EXCEPT !.tag_state.styles = ClearBit(@, ATTRS[a].style)]
       ELSE IF ATTRS[a].fg_code # NULL /\ ATTRS[a].fg_code = m.tag_state.fg_code
       THEN [m EXCEPT !.tag_state.fg_code = NULL]
       ELSE m
     ELSE IF Len(w) > 3 /\ has_prefix(w, w_fg) /\ m.tag_state.fg_code # NULL THEN
       IF n.ok /\ fg256(clamp255(n.val)) = Deref(m, m.tag_state.fg_code)
       THEN [m EXCEPT !.tag_state.fg_code = m.default_fg]
       ELSE m
     ELSE m

(* close_fg_word with a named style clearing the whole style mask *)
close_fg_word_all_styles(m, w) ==
  LET a == lookup_attr(w)
      n == strtol(w, 4)
  IN IF a # 0 THEN
       IF ATTRS[a].style # 0
       THEN [m EXCEPT !.tag_state.styles = 0]
       ELSE IF ATTRS[a].fg_code # NULL /\ ATTRS[a].fg_code = m.tag_state.fg_code
       THEN [m EXCEPT !.tag_state.fg_code = m.default_fg]
       ELSE m
     ELSE IF Len(w) > 3 /\ has_prefix(w, w_fg) /\ m.tag_state.fg_code # NULL THEN
       IF n.ok /\ fg256(clamp255(n.val)) = Deref(m, m.tag_state.fg_code)
       THEN [m EXCEPT !.tag_state.fg_code = m.default_fg]
       ELSE m
     ELSE m

(* close_fg_word with a numeric word closing whatever foreground is active *)
close_fg_word_any_number(m, w) ==
  LET a == lookup_attr(w)
      n == strtol(w, 4)
  IN IF a # 0 THEN
       IF ATTRS[a].style # 0
       THEN [m EXCEPT !.tag_state.styles = ClearBit(@, ATTRS[a].style)]
       ELSE IF ATTRS[a].fg_code # NULL /\ ATTRS[a].fg_code = m.tag_state.fg_code
       THEN [m EXCEPT !.tag_state.fg_code = m.default_fg]
       ELSE m
     ELSE IF Len(w) > 3 /\ has_prefix(w, w_fg) /\ m.tag_state.fg_code # NULL THEN
       IF n.ok
       THEN [m EXCEPT !.tag_state.fg_code = m.default_fg]
       ELSE m
     ELSE m

(* one foreground word of a close tag *)
close_fg_word(m, w) ==
  LET a == lookup_attr(w)
      n == strtol(w, 4)
  IN IF a # 0 THEN
       IF ATTRS[a].style # 0
       THEN [m EXCEPT !.tag_state.styles = ClearBit(@, ATTRS[a].style)]
       ELSE IF ATTRS[a].fg_code # NULL /\ ATTRS[a].fg_code = m.tag_state.fg_code
       THEN [m EXCEPT !.tag_state.fg_code = m.default_fg]
       ELSE m
     ELSE IF Len(w) > 3 /\ has_prefix(w, w_fg) /\ m.tag_state.fg_code # NULL THEN
       IF n.ok /\ fg256(clamp255(n.val)) = Deref(m, m.tag_state.fg_code)
       THEN [m EXCEPT !.tag_state.fg_code = m.default_fg]
       ELSE m
     ELSE m

RECURSIVE close_fg_words(_, _, _)
close_fg_words(m, ws, i) ==
  IF i > Len(ws) THEN m ELSE close_fg_words(close_fg_word(m, ws[i]), ws, i + 1)

(* the background part of a close tag *)
close_bg(m, bgraw) ==
  LET bg == trim(bgraw)
      a  == lookup_attr(bg)
      n  == strtol(bg, 4)
  IN IF Len(bgraw) = 0 \/ m.tag_state.bg_code = NULL THEN m
     ELSE IF a # 0 /\ ATTRS[a].style = 0 /\ ATTRS[a].bg_code = m.tag_state.bg_code
     THEN [m EXCEPT !.tag_state.bg_code = m.default_bg]
     ELSE IF Len(bg) > 3 /\ has_prefix(bg, w_bg) THEN
       IF n.ok /\ bg256(clamp255(n.val)) = Deref(m, m.tag_state.bg_code)
       THEN [m EXCEPT !.tag_state.bg_code = m.default_bg]
       ELSE m
     ELSE m

(* close_all with the style mask left as it is *)
close_all_keeps_styles(m) ==
  LET r == [output_string(m, RESET) EXCEPT
              !.tag_state = TagState(m.default_fg, m.default_bg, m.tag_state.styles)]
  IN IF m.default_fg # NULL \/ m.default_bg # NULL THEN reapply_state(r) ELSE r

(* [/]: reset to the defaults *)
close_all(m) ==
  LET r == [output_string(m, RESET) EXCEPT
              !.tag_state = TagState(m.default_fg, m.default_bg, 0)]
  IN IF m.default_fg # NULL \/ m.default_bg # NULL THEN reapply_state(r) ELSE r

(* emit_close_tag with the effect closes writing the reset alone *)
emit_close_tag_no_reapply(m, tag) ==
  LET on  == find_on(tag)
      fg  == IF on # 0 THEN SubSeq(tag, 1, on - 1) ELSE tag
      m1  == close_fg_words(m, Words(fg), 1)
      m2  == IF on # 0 THEN close_bg(m1, SubSeq(tag, on + 4, Len(tag))) ELSE m1
  IN
  IF Len(tag) = 0 THEN close_all(m)
  ELSE IF has_prefix(tag, w_gradient) /\ (Len(tag) = 8 \/ tag[9] = " ") THEN
    output_string(
      [m EXCEPT !.tag_state.styles = ClearBit(@, STYLE_GRADIENT)], RESET)
  ELSE IF tag = w_rainbow THEN
    output_string(
      [m EXCEPT !.tag_state.styles = ClearBit(@, STYLE_RAINBOW),
                !.rainbow_idx = 0, !.rainbow_len = 0], RESET)
  ELSE reapply_state(output_string(m2, RESET))

(* [/tag]: tag is the content after the slash *)
emit_close_tag(m, tag) ==
  LET on  == find_on(tag)
      fg  == IF on # 0 THEN SubSeq(tag, 1, on - 1) ELSE tag
      m1  == close_fg_words(m, Words(fg), 1)
      m2  == IF on # 0 THEN close_bg(m1, SubSeq(tag, on + 4, Len(tag))) ELSE m1
  IN
  IF Len(tag) = 0 THEN close_all(m)
  ELSE IF has_prefix(tag, w_gradient) /\ (Len(tag) = 8 \/ tag[9] = " ") THEN
    reapply_state(output_string(
      [m EXCEPT !.tag_state.styles = ClearBit(@, STYLE_GRADIENT)], RESET))
  ELSE IF tag = w_rainbow THEN
    reapply_state(output_string(
      [m EXCEPT !.tag_state.styles = ClearBit(@, STYLE_RAINBOW),
                !.rainbow_idx = 0, !.rainbow_len = 0], RESET))
  ELSE reapply_state(output_string(m2, RESET))

(* open_fg_word with a named colour recorded but not emitted *)
open_fg_word_silent(m, w) ==
  LET a == lookup_attr(w)
      n == strtol(w, 4)
  IN IF a # 0 THEN
       IF ATTRS[a].style # 0
       THEN [output_string(m, ATTRS[a].fg_code) EXCEPT
               !.tag_state.styles = SetBit(@, ATTRS[a].style)]
       ELSE [m EXCEPT !.tag_state.fg_code = ATTRS[a].fg_code]
     ELSE IF Len(w) > 3 /\ has_prefix(w, w_fg) /\ n.ok THEN
       [output_string([m EXCEPT !.num_fg = fg256(clamp255(n.val))], "m_num_fg") EXCEPT
          !.tag_state.fg_code = "m_num_fg"]
     ELSE m

(* open_fg_word with an unknown word resetting the terminal and TagState *)
open_fg_word_unknown_resets(m, w) ==
  LET a == lookup_attr(w)
      n == strtol(w, 4)
  IN IF a # 0 THEN
       IF ATTRS[a].style # 0
       THEN [output_string(m, ATTRS[a].fg_code) EXCEPT
               !.tag_state.styles = SetBit(@, ATTRS[a].style)]
       ELSE [output_string(m, ATTRS[a].fg_code) EXCEPT
               !.tag_state.fg_code = ATTRS[a].fg_code]
     ELSE IF Len(w) > 3 /\ has_prefix(w, w_fg) /\ n.ok THEN
       [output_string([m EXCEPT !.num_fg = fg256(clamp255(n.val))], "m_num_fg") EXCEPT
          !.tag_state.fg_code = "m_num_fg"]
     ELSE [output_string(m, RESET) EXCEPT !.tag_state = TagState(NULL, NULL, 0)]

(* one foreground word of an open tag *)
open_fg_word(m, w) ==
  LET a == lookup_attr(w)
      n == strtol(w, 4)
  IN IF a # 0 THEN
       IF ATTRS[a].style # 0
       THEN [output_string(m, ATTRS[a].fg_code) EXCEPT
               !.tag_state.styles = SetBit(@, ATTRS[a].style)]
       ELSE [output_string(m, ATTRS[a].fg_code) EXCEPT
               !.tag_state.fg_code = ATTRS[a].fg_code]
     ELSE IF Len(w) > 3 /\ has_prefix(w, w_fg) /\ n.ok THEN
       [output_string([m EXCEPT !.num_fg = fg256(clamp255(n.val))], "m_num_fg") EXCEPT
          !.tag_state.fg_code = "m_num_fg"]
     ELSE m

RECURSIVE open_fg_words(_, _, _)
open_fg_words(m, ws, i) ==
  IF i > Len(ws) THEN m ELSE open_fg_words(open_fg_word(m, ws[i]), ws, i + 1)

(* the background part of an open tag *)
open_bg(m, bgraw) ==
  LET bg == trim(bgraw)
      a  == lookup_attr(bg)
      n  == strtol(bg, 4)
  IN IF Len(bgraw) = 0 THEN m
     ELSE IF a # 0 /\ ATTRS[a].style = 0
     THEN [output_string(m, ATTRS[a].bg_code) EXCEPT !.tag_state.bg_code = ATTRS[a].bg_code]
     ELSE IF Len(bg) > 3 /\ has_prefix(bg, w_bg) /\ n.ok THEN
       [output_string([m EXCEPT !.num_bg = bg256(clamp255(n.val))], "m_num_bg") EXCEPT
          !.tag_state.bg_code = "m_num_bg"]
     ELSE m

(* emit_tag without the test of m_color_enabled *)
emit_tag_always(m, tag) ==
  LET on == find_on(tag)
      fg == IF on # 0 THEN SubSeq(tag, 1, on - 1) ELSE tag
      m1 == open_fg_words(m, Words(fg), 1)
  IN
  IF Len(tag) = 0 THEN m
  ELSE IF tag[1] = "/" THEN emit_close_tag(m, Tail(tag))
  ELSE IF Len(tag) > 9 /\ has_prefix(tag, w_gradient \o <<" ">>)
       THEN parse_gradient_tag(m, SubSeq(tag, 10, Len(tag)))
  ELSE IF on # 0 THEN open_bg(m1, SubSeq(tag, on + 4, Len(tag))) ELSE m1

(* [tag]: tag is the content between the brackets *)
emit_tag(m, tag) ==
  LET on == find_on(tag)
      fg == IF on # 0 THEN SubSeq(tag, 1, on - 1) ELSE tag
      m1 == open_fg_words(m, Words(fg), 1)
  IN
  IF m.color_enabled = 0 \/ Len(tag) = 0 THEN m
  ELSE IF tag[1] = "/" THEN emit_close_tag(m, Tail(tag))
  ELSE IF Len(tag) > 9 /\ has_prefix(tag, w_gradient \o <<" ">>)
       THEN parse_gradient_tag(m, SubSeq(tag, 10, Len(tag)))
  ELSE IF on # 0 THEN open_bg(m1, SubSeq(tag, on + 4, Len(tag))) ELSE m1

(* ----------------------------------------------------------------------- *)
(* Per-character effects and codepoints                                    *)
(* ----------------------------------------------------------------------- *)

rgb_code(r, g, b) ==
  "ESC[38;2;" \o ToString(r) \o ";" \o ToString(g) \o ";" \o ToString(b) \o "m"

(* emit_char_color dividing by the span length, not by the length less 1 *)
emit_char_color_len(m) ==
  IF HasBit(m.tag_state.styles, STYLE_GRADIENT) /\ m.color_enabled # 0 THEN
    LET n  == IF m.gradient.len > 1 THEN m.gradient.len ELSE 1
        i  == IF m.gradient.idx > n THEN n ELSE m.gradient.idx
        st == m.gradient.start
        en == m.gradient.end
        r  == st[1] + CDiv((en[1] - st[1]) * i, n)
        g  == st[2] + CDiv((en[2] - st[2]) * i, n)
        b  == st[3] + CDiv((en[3] - st[3]) * i, n)
    IN [putc(m, rgb_code(r, g, b)) EXCEPT !.gradient.idx = @ + 1]
  ELSE IF HasBit(m.tag_state.styles, STYLE_RAINBOW) /\ m.color_enabled # 0 THEN
    LET q   == CDiv(m.rainbow_idx * (RAINBOW_LEN - 1),
                    IF m.rainbow_len > 1 THEN m.rainbow_len - 1 ELSE 1)
        pos == IF q > RAINBOW_LEN - 1 THEN RAINBOW_LEN - 1 ELSE q
    IN [putc(m, fg256(RAINBOW[pos + 1])) EXCEPT !.rainbow_idx = @ + 1]
  ELSE m

(* the gradient or rainbow color code emitted before a visible character *)
emit_char_color(m) ==
  IF HasBit(m.tag_state.styles, STYLE_GRADIENT) /\ m.color_enabled # 0 THEN
    LET n  == IF m.gradient.len > 1 THEN m.gradient.len - 1 ELSE 1
        i  == IF m.gradient.idx > n THEN n ELSE m.gradient.idx
        st == m.gradient.start
        en == m.gradient.end
        r  == st[1] + CDiv((en[1] - st[1]) * i, n)
        g  == st[2] + CDiv((en[2] - st[2]) * i, n)
        b  == st[3] + CDiv((en[3] - st[3]) * i, n)
    IN [putc(m, rgb_code(r, g, b)) EXCEPT !.gradient.idx = @ + 1]
  ELSE IF HasBit(m.tag_state.styles, STYLE_RAINBOW) /\ m.color_enabled # 0 THEN
    LET q   == CDiv(m.rainbow_idx * (RAINBOW_LEN - 1),
                    IF m.rainbow_len > 1 THEN m.rainbow_len - 1 ELSE 1)
        pos == IF q > RAINBOW_LEN - 1 THEN RAINBOW_LEN - 1 ELSE q
    IN [putc(m, fg256(RAINBOW[pos + 1])) EXCEPT !.rainbow_idx = @ + 1]
  ELSE m

(* the UTF-8 encoding of cp, byte by byte *)
emit_unicode_codepoint(m, cp) ==
  IF cp <= 127 THEN putc(m, Chr(cp))
  ELSE IF cp <= 2047 THEN
    putc(putc(m, Chr(192 + cp \div 64)), Chr(128 + (cp % 64)))
  ELSE IF cp <= 65535 THEN
    putc(putc(putc(m, Chr(224 + cp \div 4096)),
              Chr(128 + ((cp \div 64) % 64))), Chr(128 + (cp % 64)))
  ELSE IF cp <= 1114111 THEN
    putc(putc(putc(putc(m, Chr(240 + cp \div 262144)),
                   Chr(128 + ((cp \div 4096) % 64))),
              Chr(128 + ((cp \div 64) % 64))), Chr(128 + (cp % 64)))
  ELSE m

(* ----------------------------------------------------------------------- *)
(* ansi_emit, in three parts: the reset on entry, the body of the token    *)
(* loop, and the trailing reset and flush after TOK_END                    *)
(* ----------------------------------------------------------------------- *)

ansi_emit_enter(m) ==
  [m EXCEPT !.tag_state = TagState(NULL, NULL, 0),
            !.rainbow_idx = 0, !.rainbow_len = 0,
            !.gradient.len = 0, !.gradient.idx = 0]

RECURSIVE emit_seq(_, _, _)
emit_seq(m, bytes, i) ==
  IF i > Len(bytes) THEN m ELSE emit_seq(putc(m, bytes[i]), bytes, i + 1)

(* ansi_emit_token with emoji shortcodes replaced only while color is on *)
ansi_emit_token_color_emoji(m, s, tok) ==
  IF tok.type \in {"TOK_ESC_BRACKET", "TOK_ESC_COLON"} THEN putc(m, tok.ch)
  ELSE IF tok.type = "TOK_TAG" THEN
    LET gradient_len(m1) ==
          IF HasBit(m1.tag_state.styles, STYLE_GRADIENT) /\ m1.gradient.len = 0
          THEN [m1 EXCEPT !.gradient.len = count_effect_chars(s, tok.pos, w_gradient, 0)]
          ELSE m1
        rainbow_len(m2) ==
          IF HasBit(m2.tag_state.styles, STYLE_RAINBOW) /\ m2.rainbow_len = 0
          THEN [m2 EXCEPT !.rainbow_len = count_effect_chars(s, tok.pos, w_rainbow, 0)]
          ELSE m2
    IN rainbow_len(gradient_len(emit_tag(m, SubSeq(s, tok.ptr, tok.ptr + tok.len - 1))))
  ELSE IF tok.type = "TOK_CHAR" THEN
    emit_token_bytes(IF tok.ch \notin {" ", "\t", "\n"} THEN emit_char_color(m) ELSE m,
                     s, tok)
  ELSE IF tok.type = "TOK_EMOJI" THEN
    IF m.color_enabled = 0 THEN m
    ELSE emit_seq(emit_char_color(m), EMOJIS[tok.emoji].utf8, 1)
  ELSE IF tok.type = "TOK_UNICODE" THEN
    emit_unicode_codepoint(emit_char_color(m), tok.codepoint)
  ELSE m

(* the switch on one token; tok.pos is where the text continues *)
ansi_emit_token(m, s, tok) ==
  IF tok.type \in {"TOK_ESC_BRACKET", "TOK_ESC_COLON"} THEN putc(m, tok.ch)
  ELSE IF tok.type = "TOK_TAG" THEN
    LET gradient_len(m1) ==
          IF HasBit(m1.tag_state.styles, STYLE_GRADIENT) /\ m1.gradient.len = 0
          THEN [m1 EXCEPT !.gradient.len = count_effect_chars(s, tok.pos, w_gradient, 0)]
          ELSE m1
        rainbow_len(m2) ==
          IF HasBit(m2.tag_state.styles, STYLE_RAINBOW) /\ m2.rainbow_len = 0
          THEN [m2 EXCEPT !.rainbow_len = count_effect_chars(s, tok.pos, w_rainbow, 0)]
          ELSE m2
    IN rainbow_len(gradient_len(emit_tag(m, SubSeq(s, tok.ptr, tok.ptr + tok.len - 1))))
  ELSE IF tok.type = "TOK_CHAR" THEN
    emit_token_bytes(IF tok.ch \notin {" ", "\t", "\n"} THEN emit_char_color(m) ELSE m,
                     s, tok)
  ELSE IF tok.type = "TOK_EMOJI" THEN
    emit_seq(emit_char_color(m), EMOJIS[tok.emoji].utf8, 1)
  ELSE IF tok.type = "TOK_UNICODE" THEN
    emit_unicode_codepoint(emit_char_color(m), tok.codepoint)
  ELSE m

(* ansi_emit_leave calling the flush function before the reset *)
ansi_emit_leave_flush_first(m) ==
  IF m.color_enabled # 0 /\ (m.tag_state.fg_code # NULL \/ m.tag_state.bg_code # NULL
                             \/ m.tag_state.styles # 0)
  THEN output_string(flush(m), RESET) ELSE flush(m)

ansi_emit_leave(m) ==
  flush(IF m.color_enabled # 0 /\ (m.tag_state.fg_code # NULL \/ m.tag_state.bg_code # NULL
                                   \/ m.tag_state.styles # 0)
        THEN output_string(m, RESET) ELSE m)

(* the token loop of ansi_emit from position p to the end of s; the state  *)
(* after a token and the next position are bound as values (the one member *)
(* of a set) before the next turn, so that TLC computes each turn once     *)
RECURSIVE ansi_emit_loop(_, _, _)
ansi_emit_loop(m, s, p) ==
  LET tok == next_markup_token(s, p) IN
  IF tok.type = "TOK_END" THEN m
  ELSE CHOOSE r \in { ansi_emit_loop(m1, s, q) :
                        m1 \in {ansi_emit_token(m, s, tok)}, q \in {tok.pos} } : TRUE

(* a whole call of ansi_emit on the non-NULL string s *)
ansi_emit(m, s) ==
  CHOOSE r \in { ansi_emit_leave(m2) :
                   m2 \in { ansi_emit_loop(m1, s, 1) : m1 \in {ansi_emit_enter(m)} } } : TRUE

(* ----------------------------------------------------------------------- *)
(* State                                                                   *)
(* ----------------------------------------------------------------------- *)

VARIABLES
  m_putc_function,   \* "capture_putc", "ansi_noop_putc" (NULL: never stored)
  m_flush_function,  \* "capture_flush", "ansi_noop_flush"
  m_color_enabled,   \* int
  m_no_color_lock,   \* int
  m_tag_state,       \* TagState
  m_default_fg,      \* code pointer or NULL
  m_default_bg,      \* code pointer or NULL
  m_num_fg,          \* contents of the numeric fg code buffer
  m_num_bg,          \* contents of the numeric bg code buffer
  m_rainbow_idx,
  m_rainbow_len,
  m_gradient,        \* GradientState
  capture_buf,       \* the calls the sink received since capture_reset
  fault,             \* a call went through a NULL function pointer
  no_color_env,      \* getenv("NO_COLOR") != NULL
  stdout_isatty,     \* isatty(fileno(stdout))
  pc,                \* "idle", or "emit" / "flushed" inside ansi_emit
  str,               \* the argument of the running ansi_emit
  pos,               \* the position in str
  last_call,         \* the public function entered last (SpecEnable only)
  bar,               \* the buffer a test hands to ansi_bar, and the call made on it
  m_buf,             \* the scratch buffer given to ansi_init: its name, or NULL
  m_buf_size,        \* its size
  thr,               \* the two threads that call ansi_puts (SpecThreads only)
  tui,               \* the widget a test made: its struct, state block and bar buffer
  fmt                \* the bytes the last vsnprintf stored through m_buf, and
                     \* what the last ansi_format returned

vars == <<m_putc_function, m_flush_function, m_color_enabled, m_no_color_lock,
          m_tag_state, m_default_fg, m_default_bg, m_num_fg, m_num_bg,
          m_rainbow_idx, m_rainbow_len, m_gradient, capture_buf, fault,
          no_color_env, stdout_isatty, pc, str, pos, last_call, bar,
          m_buf, m_buf_size, fmt, thr, tui>>

env_vars == <<no_color_env, stdout_isatty>>
buf_vars == <<m_buf, m_buf_size, fmt>>
call_vars == <<pc, str, pos>>

(* the statics that the emission operators read and write, and the sink *)
Statics ==
  [putc_function |-> m_putc_function, flush_function |-> m_flush_function,
   color_enabled |-> m_color_enabled, tag_state |-> m_tag_state,
   default_fg |-> m_default_fg, default_bg |-> m_default_bg,
   num_fg |-> m_num_fg, num_bg |-> m_num_bg,
   rainbow_idx |-> m_rainbow_idx, rainbow_len |-> m_rainbow_len,
   gradient |-> m_gradient, out |-> capture_buf, fault |-> fault]

Store(m) ==
  /\ m_putc_function' = m.putc_function
  /\ m_flush_function' = m.flush_function
  /\ m_color_enabled' = m.color_enabled
  /\ m_tag_state' = m.tag_state
  /\ m_default_fg' = m.default_fg
  /\ m_default_bg' = m.default_bg
  /\ m_num_fg' = m.num_fg
  /\ m_num_bg' = m.num_bg
  /\ m_rainbow_idx' = m.rainbow_idx
  /\ m_rainbow_len' = m.rainbow_len
  /\ m_gradient' = m.gradient
  /\ capture_buf' = m.out
  /\ fault' = m.fault

(* a buffer no ansi_bar call has been made on *)
NoBar == [fn |-> "none", args |-> <<>>, written |-> FALSE, ret |-> "none", mem |-> <<>>,
          buf |-> <<>>, bad |-> "no"]

(* one thread running, the other one idle, no mutex around the calls *)
NoThreads ==
  [cur |-> 1, other |-> [pc |-> "idle", str |-> <<>>, pos |-> 0],
   locking |-> FALSE, owner |-> 0, calls |-> << <<"none">>, <<"none">> >>]

(* a scratch buffer nothing was formatted into *)
(* no widget *)
NoTui == [kind |-> "none"]

NoFmt == [mem |-> <<>>, ret |-> "none"]

(* sizeof(fmt_buf) of test_cprint.c *)
FmtBufSize == 512

(* the values of the static initializers, before any call *)
InitStatic ==
  /\ m_putc_function = "ansi_noop_putc"
  /\ m_flush_function = "ansi_noop_flush"
  /\ m_color_enabled = 1
  /\ m_no_color_lock = 0
  /\ m_tag_state = TagState(NULL, NULL, 0)
  /\ m_default_fg = NULL
  /\ m_default_bg = NULL
  /\ m_num_fg = ""
  /\ m_num_bg = ""
  /\ m_rainbow_idx = 0
  /\ m_rainbow_len = 0
  /\ m_gradient = GradientState(<<0, 0, 0>>, <<0, 0, 0>>, 0, 0)
  /\ capture_buf = <<>>
  /\ fault = FALSE
  /\ no_color_env = FALSE
  /\ stdout_isatty = 1
  /\ pc = "idle"
  /\ str = <<>>
  /\ pos = 0
  /\ last_call = "none"
  /\ bar = NoBar
  /\ m_buf = NULL
  /\ m_buf_size = 0
  /\ fmt = NoFmt
  /\ thr = NoThreads
  /\ tui = NoTui

(* the state the test fixture sets up:                                     *)
(* ansi_init(capture_putc, capture_flush, fmt_buf, sizeof(fmt_buf))        *)
Init ==
  /\ m_putc_function = "capture_putc"
  /\ m_flush_function = "capture_flush"
  /\ m_color_enabled = 1
  /\ m_no_color_lock = 0
  /\ m_tag_state = TagState(NULL, NULL, 0)
  /\ m_default_fg = NULL
  /\ m_default_bg = NULL
  /\ m_num_fg = ""
  /\ m_num_bg = ""
  /\ m_rainbow_idx = 0
  /\ m_rainbow_len = 0
  /\ m_gradient = GradientState(<<0, 0, 0>>, <<0, 0, 0>>, 0, 0)
  /\ capture_buf = <<>>
  /\ fault = FALSE
  /\ no_color_env = FALSE
  /\ stdout_isatty = 1
  /\ pc = "idle"
  /\ str = <<>>
  /\ pos = 0
  /\ last_call = "none"
  /\ bar = NoBar
  /\ m_buf = "fmt_buf"
  /\ m_buf_size = FmtBufSize
  /\ fmt = NoFmt
  /\ thr = NoThreads
  /\ tui = NoTui

(* ----------------------------------------------------------------------- *)
(* Public API                                                              *)
(* ----------------------------------------------------------------------- *)

(* ansi_init storing the two arguments as they are *)
ansi_init_unchecked(putc_fn, flush_fn, buf, buf_size) ==
  /\ pc = "idle"
  /\ m_putc_function' = putc_fn
  /\ m_flush_function' = flush_fn
  /\ m_buf' = buf
  /\ m_buf_size' = buf_size
  /\ m_color_enabled' = 1
  /\ m_no_color_lock' = 0
  /\ UNCHANGED <<m_tag_state, m_default_fg, m_default_bg, m_num_fg, m_num_bg,
                 m_rainbow_idx, m_rainbow_len, m_gradient, capture_buf, fault,
                 env_vars, call_vars, fmt>>

ansi_init(putc_fn, flush_fn, buf, buf_size) ==
  /\ pc = "idle"
  /\ m_putc_function' = IF putc_fn # NULL THEN putc_fn ELSE "ansi_noop_putc"
  /\ m_flush_function' = IF flush_fn # NULL THEN flush_fn ELSE "ansi_noop_flush"
  /\ m_buf' = buf
  /\ m_buf_size' = buf_size
  /\ m_color_enabled' = 1
  /\ m_no_color_lock' = 0
  /\ UNCHANGED <<m_tag_state, m_default_fg, m_default_bg, m_num_fg, m_num_bg,
                 m_rainbow_idx, m_rainbow_len, m_gradient, capture_buf, fault,
                 env_vars, call_vars, fmt>>

ansi_enable ==
  /\ pc = "idle"
  /\ IF no_color_env
     THEN m_color_enabled' = 0 /\ m_no_color_lock' = 1
     ELSE m_color_enabled' = stdout_isatty /\ UNCHANGED m_no_color_lock
  /\ UNCHANGED <<m_putc_function, m_flush_function,
                 m_tag_state, m_default_fg, m_default_bg, m_num_fg, m_num_bg,
                 m_rainbow_idx, m_rainbow_len, m_gradient, capture_buf, fault,
                 env_vars, buf_vars, call_vars>>

ansi_set_enabled(enabled) ==
  /\ pc = "idle"
  /\ m_color_enabled' = IF m_no_color_lock = 0 THEN enabled ELSE m_color_enabled
  /\ UNCHANGED <<m_putc_function, m_flush_function, m_no_color_lock,
                 m_tag_state, m_default_fg, m_default_bg, m_num_fg, m_num_bg,
                 m_rainbow_idx, m_rainbow_len, m_gradient, capture_buf, fault,
                 env_vars, buf_vars, call_vars>>

ansi_is_enabled == m_color_enabled

(* ansi_toggle without the test of m_no_color_lock *)
ansi_toggle_unlocked ==
  /\ pc = "idle"
  /\ m_color_enabled' = (IF m_color_enabled = 0 THEN 1 ELSE 0)
  /\ UNCHANGED <<m_putc_function, m_flush_function, m_no_color_lock,
                 m_tag_state, m_default_fg, m_default_bg, m_num_fg, m_num_bg,
                 m_rainbow_idx, m_rainbow_len, m_gradient, capture_buf, fault,
                 env_vars, buf_vars, call_vars>>

(* toggle_result storing 0 whatever the flag was *)
toggle_result_off(lock, enabled) == IF lock = 0 THEN 0 ELSE enabled

(* the flag after ansi_toggle(): !m_color_enabled unless the lock is set *)
toggle_result(lock, enabled) ==
  IF lock = 0 THEN (IF enabled = 0 THEN 1 ELSE 0) ELSE enabled

ansi_toggle ==
  /\ pc = "idle"
  /\ m_color_enabled' = toggle_result(m_no_color_lock, m_color_enabled)
  /\ UNCHANGED <<m_putc_function, m_flush_function, m_no_color_lock,
                 m_tag_state, m_default_fg, m_default_bg, m_num_fg, m_num_bg,
                 m_rainbow_idx, m_rainbow_len, m_gradient, capture_buf, fault,
                 env_vars, buf_vars, call_vars>>

(* a NULL char pointer passed where a string is expected *)
NullStr == <<NULL>>

(* set_fg without the test of a->style *)
set_fg_styles(m, color) ==
  LET a == lookup_attr(color) IN
  IF color = NullStr THEN [m EXCEPT !.default_fg = NULL]
  ELSE IF a # 0 /\ ATTRS[a].fg_code # NULL THEN
    LET m1 == [m EXCEPT !.default_fg = ATTRS[a].fg_code,
                        !.tag_state.fg_code = ATTRS[a].fg_code]
    IN IF m.color_enabled # 0 THEN output_string(m1, ATTRS[a].fg_code) ELSE m1
  ELSE m

(* the statics after ansi_set_fg(color); color is a string or NullStr *)
set_fg(m, color) ==
  LET a == lookup_attr(color) IN
  IF color = NullStr THEN [m EXCEPT !.default_fg = NULL]
  ELSE IF a # 0 /\ ATTRS[a].style = 0 /\ ATTRS[a].fg_code # NULL THEN
    LET m1 == [m EXCEPT !.default_fg = ATTRS[a].fg_code,
                        !.tag_state.fg_code = ATTRS[a].fg_code]
    IN IF m.color_enabled # 0 THEN output_string(m1, ATTRS[a].fg_code) ELSE m1
  ELSE m

(* the statics after ansi_set_bg(color) *)
set_bg(m, color) ==
  LET a == lookup_attr(color) IN
  IF color = NullStr THEN [m EXCEPT !.default_bg = NULL]
  ELSE IF a # 0 /\ ATTRS[a].style = 0 /\ ATTRS[a].bg_code # NULL THEN
    LET m1 == [m EXCEPT !.default_bg = ATTRS[a].bg_code,
                        !.tag_state.bg_code = ATTRS[a].bg_code]
    IN IF m.color_enabled # 0 THEN output_string(m1, ATTRS[a].bg_code) ELSE m1
  ELSE m

ansi_set_fg(color) ==
  /\ pc = "idle"
  /\ capture_buf = <<>>
  /\ Store(set_fg(Statics, color))
  /\ UNCHANGED <<m_no_color_lock, env_vars, buf_vars, call_vars>>

ansi_set_bg(color) ==
  /\ pc = "idle"
  /\ capture_buf = <<>>
  /\ Store(set_bg(Statics, color))
  /\ UNCHANGED <<m_no_color_lock, env_vars, buf_vars, call_vars>>

(* ansi_emit(p) is entered: nothing happens for a NULL p *)
ansi_emit_call(p) ==
  IF p = NullStr
  THEN UNCHANGED <<m_putc_function, m_flush_function, m_color_enabled,
                   m_tag_state, m_default_fg, m_default_bg, m_num_fg, m_num_bg,
                   m_rainbow_idx, m_rainbow_len, m_gradient, capture_buf, fault,
                   call_vars>>
  ELSE /\ Store(ansi_emit_enter(Statics))
       /\ pc' = "emit"
       /\ str' = p
       /\ pos' = 1

(* ansi_puts(s); s is NullStr for NULL *)
ansi_puts(s) ==
  /\ pc = "idle"
  /\ capture_buf = <<>>
  /\ ansi_emit_call(s)
  /\ UNCHANGED <<m_no_color_lock, env_vars, buf_vars>>

(* one turn of the token loop of ansi_emit; at TOK_END the trailing reset  *)
(* and the flush                                                           *)
ansi_emit_step ==
  /\ pc = "emit"
  /\ LET tok == next_markup_token(str, pos) IN
     IF tok.type = "TOK_END"
     THEN /\ Store(ansi_emit_leave(Statics))
          /\ pc' = "flushed"
          /\ UNCHANGED <<str, pos>>
     ELSE /\ Store(ansi_emit_token(Statics, str, tok))
          /\ pos' = tok.pos
          /\ UNCHANGED <<pc, str>>
  /\ UNCHANGED <<m_no_color_lock, env_vars, buf_vars>>

(* ansi_emit returns to its caller *)
ansi_emit_return ==
  /\ pc = "flushed"
  /\ pc' = "idle"
  /\ str' = <<>>
  /\ pos' = 0
  /\ UNCHANGED <<m_putc_function, m_flush_function, m_color_enabled, m_no_color_lock,
                 m_tag_state, m_default_fg, m_default_bg, m_num_fg, m_num_bg,
                 m_rainbow_idx, m_rainbow_len, m_gradient, capture_buf, fault, env_vars, buf_vars>>

(* ----------------------------------------------------------------------- *)
(* Environment: the capture buffer of test_cprint.c, NO_COLOR, the terminal *)
(* ----------------------------------------------------------------------- *)

capture_reset ==
  /\ pc = "idle"
  /\ capture_buf # <<>>
  /\ capture_buf' = <<>>
  /\ UNCHANGED <<m_putc_function, m_flush_function, m_color_enabled, m_no_color_lock,
                 m_tag_state, m_default_fg, m_default_bg, m_num_fg, m_num_bg,
                 m_rainbow_idx, m_rainbow_len, m_gradient, fault, env_vars, buf_vars, call_vars>>

(* putenv("NO_COLOR=1") / unsetenv("NO_COLOR") *)
set_no_color(present) ==
  /\ pc = "idle"
  /\ no_color_env # present
  /\ no_color_env' = present
  /\ UNCHANGED <<m_putc_function, m_flush_function, m_color_enabled, m_no_color_lock,
                 m_tag_state, m_default_fg, m_default_bg, m_num_fg, m_num_bg,
                 m_rainbow_idx, m_rainbow_len, m_gradient, capture_buf, fault,
                 stdout_isatty, buf_vars, call_vars>>

(* stdout is redirected to or from a terminal *)
set_isatty(tty) ==
  /\ pc = "idle"
  /\ stdout_isatty # tty
  /\ stdout_isatty' = tty
  /\ UNCHANGED <<m_putc_function, m_flush_function, m_color_enabled, m_no_color_lock,
                 m_tag_state, m_default_fg, m_default_bg, m_num_fg, m_num_bg,
                 m_rainbow_idx, m_rainbow_len, m_gradient, capture_buf, fault,
                 no_color_env, buf_vars, call_vars>>

(* ----------------------------------------------------------------------- *)
(* Bar graph                                                               *)
(* ----------------------------------------------------------------------- *)

(* block glyphs by eighths, 1..8 (entry 0 of the C table is NULL) *)
m_bar_block ==
  << <<"xE2", "x96", "x8F">>, <<"xE2", "x96", "x8E">>, <<"xE2", "x96", "x8D">>,
     <<"xE2", "x96", "x8C">>, <<"xE2", "x96", "x8B">>, <<"xE2", "x96", "x8A">>,
     <<"xE2", "x96", "x89">>, <<"xE2", "x96", "x88">> >>

(* track glyphs by ansi_bar_track_t, ANSI_BAR_BLANK = 0 first *)
m_bar_track ==
  << [s |-> <<" ">>, len |-> 1],
     [s |-> <<"xE2", "x96", "x91">>, len |-> 3],
     [s |-> <<"xE2", "x96", "x92">>, len |-> 3],
     [s |-> <<"xE2", "x96", "x93">>, len |-> 3],
     [s |-> <<"xC2", "xB7">>, len |-> 2],
     [s |-> <<"xE2", "x94", "x80">>, len |-> 3] >>

(* a double: a finite value n, or not-a-number; a fraction num / den *)
Double(n) == [nan |-> FALSE, n |-> n]
NaN       == [nan |-> TRUE, n |-> 0]
Ratio(num, den) == [nan |-> FALSE, num |-> num, den |-> den]
NaNRatio  == [nan |-> TRUE, num |-> 0, den |-> 1]

(* the fill fraction before it is clamped; max == min is false for a NaN *)
bar_fraction(value, min, max) ==
  IF ~max.nan /\ ~min.nan /\ max.n = min.n THEN Ratio(1, 1)
  ELSE IF value.nan \/ min.nan \/ max.nan THEN NaNRatio
  ELSE IF max.n - min.n > 0 THEN Ratio(value.n - min.n, max.n - min.n)
  ELSE Ratio(min.n - value.n, min.n - max.n)

(* if (fraction < 0.0) fraction = 0.0; if (fraction > 1.0) fraction = 1.0; *)
(* both tests are false for a NaN                                          *)
bar_clamp(f) ==
  IF f.nan THEN f
  ELSE IF f.num < 0 THEN Ratio(0, 1)
  ELSE IF f.num > f.den THEN Ratio(1, 1)
  ELSE f

(* (int)(fraction * width * 8 + 0.5); the conversion of a NaN is undefined *)
(* and gives ub                                                            *)
bar_eighths(f, width, ub) ==
  IF f.nan THEN ub
  ELSE (2 * f.num * width * 8 + f.den) \div (2 * f.den)

(* the loop over the filled cells *)
RECURSIVE bar_blocks(_, _, _)
bar_blocks(out, eighths, blk_end) ==
  IF eighths > 0 /\ Len(out) + 3 <= blk_end
  THEN LET fill == IF eighths >= 8 THEN 8 ELSE eighths
       IN bar_blocks(out \o m_bar_block[fill], eighths - fill, blk_end)
  ELSE out

(* the loop over the empty track *)
RECURSIVE bar_track(_, _, _, _, _)
bar_track(out, i, empty, tk, end) ==
  IF i < empty /\ Len(out) + tk.len <= end
  THEN bar_track(out \o tk.s, i + 1, empty, tk, end)
  ELSE out

(* where the filled-cell loop must stop: the end of the buffer less the    *)
(* bytes of the close tag                                                  *)
bar_blk_end_unreserved(has_color, end, clen) == end

bar_blk_end(has_color, end, clen) ==
  IF has_color THEN end - (clen + 3) ELSE end

(* bar_string closing the colour with the reset-all tag *)
bar_string_close_all(buf_size, color, width, track, value, min, max, ub) ==
  LET end    == buf_size - 1
      tk_idx == IF track < 0 \/ track >= Len(m_bar_track) THEN 0 ELSE track
      tk     == m_bar_track[tk_idx + 1]
      eighths == bar_eighths(bar_clamp(bar_fraction(value, min, max)), width, ub)
      filled_cells == CDiv(eighths + 7, 8)
      empty  == width - filled_cells
      a      == IF color = NullStr THEN 0 ELSE lookup_attr(color)
      clen   == Len(color)
      need   == (clen + 2) + (clen + 3)
      has_color == a # 0 /\ ATTRS[a].fg_code # NULL /\ need <= end
      out1   == IF has_color THEN <<"[">> \o color \o <<"]">> ELSE <<>>
      blk_end == bar_blk_end(has_color, end, clen)
      out2   == bar_blocks(out1, eighths, blk_end)
      out3   == IF has_color THEN out2 \o <<"[", "/", "]">> ELSE out2
  IN bar_track(out3, 0, empty, tk, end)

(* the string ansi_bar builds in a buffer of buf_size >= 2 bytes for a     *)
(* width >= 1; color is NullStr for NULL                                   *)
bar_string(buf_size, color, width, track, value, min, max, ub) ==
  LET end    == buf_size - 1
      tk_idx == IF track < 0 \/ track >= Len(m_bar_track) THEN 0 ELSE track
      tk     == m_bar_track[tk_idx + 1]
      eighths == bar_eighths(bar_clamp(bar_fraction(value, min, max)), width, ub)
      filled_cells == CDiv(eighths + 7, 8)
      empty  == width - filled_cells
      a      == IF color = NullStr THEN 0 ELSE lookup_attr(color)
      clen   == Len(color)
      need   == (clen + 2) + (clen + 3)
      has_color == a # 0 /\ ATTRS[a].fg_code # NULL /\ need <= end
      out1   == IF has_color THEN <<"[">> \o color \o <<"]">> ELSE <<>>
      blk_end == bar_blk_end(has_color, end, clen)
      out2   == bar_blocks(out1, eighths, blk_end)
      out3   == IF has_color THEN out2 \o <<"[", "/">> \o color \o <<"]">> ELSE out2
  IN bar_track(out3, 0, empty, tk, end)

(* the int that the conversion of a NaN produces: undefined behaviour,     *)
(* INT_MIN with cvttsd2si, 0 with a saturating conversion                  *)
NanToInt == { (-2147483647) - 1, 0 }

(* what ansi_bar leaves behind: the value returned, the bytes stored from  *)
(* buf[0] on (the terminator included) and the string read back from buf   *)
bar_result(buf, buf_size, color, width, track, value, min, max, ub) ==
  IF buf = NULL \/ buf_size = 0 THEN [ret |-> "", mem |-> <<>>, buf |-> <<>>]
  ELSE IF buf_size < 2 \/ width < 1 THEN [ret |-> "buf", mem |-> <<Chr(0)>>, buf |-> <<>>]
  ELSE LET out == bar_string(buf_size, color, width, track, value, min, max, ub)
       IN [ret |-> "buf", mem |-> out \o <<Chr(0)>>, buf |-> out]

(* ansi_bar(buf, buf_size, color, width, track, value, min, max) on the    *)
(* fresh buffer of a test; buf is "buf" or NULL                            *)
ansi_bar(buf, buf_size, color, width, track, value, min, max) ==
  /\ pc = "idle"
  /\ bar.ret = "none"
  /\ \E ub \in NanToInt :
       LET r == bar_result(buf, buf_size, color, width, track, value, min, max, ub)
       IN bar' = [fn |-> "ansi_bar",
                  args |-> <<buf, buf_size, color, width, track, value, min, max>>,
                  written |-> ~(buf = NULL \/ buf_size = 0),
                  ret |-> r.ret, mem |-> r.mem, buf |-> r.buf, bad |-> "no"]
  /\ UNCHANGED <<m_putc_function, m_flush_function, m_color_enabled, m_no_color_lock,
                 m_tag_state, m_default_fg, m_default_bg, m_num_fg, m_num_bg,
                 m_rainbow_idx, m_rainbow_len, m_gradient, capture_buf, fault,
                 env_vars, buf_vars, call_vars, last_call, thr, tui>>

(* the text of %d *)
RECURSIVE fmt_u(_)
fmt_u(n) ==
  IF n < 10 THEN <<Chr(48 + n)>>
  ELSE fmt_u(n \div 10) \o <<Chr(48 + (n % 10))>>
fmt_d(n) == IF n < 0 THEN <<"-">> \o fmt_u(-n) ELSE fmt_u(n)

(* the bytes snprintf(dst, size, ...) stores at dst for the text s; a size *)
(* that wrapped below 0 is a size_t near SIZE_MAX                          *)
snprintf_whole(size, s) == s \o <<Chr(0)>>

snprintf(size, s) ==
  IF size = 0 THEN <<>>
  ELSE IF size < 0 \/ Len(s) <= size - 1 THEN s \o <<Chr(0)>>
  ELSE SubSeq(s, 1, size - 1) \o <<Chr(0)>>

(* the string in a byte array *)
strlen(mem) ==
  IF \E i \in 1..Len(mem) : mem[i] = Chr(0)
  THEN (CHOOSE i \in 1..Len(mem) : mem[i] = Chr(0) /\ \A j \in 1..(i - 1) : mem[j] # Chr(0)) - 1
  ELSE Len(mem)

(* what strlen finds in a buffer that ansi_bar did not write: the length   *)
(* of the bytes that happen to be there                                    *)
StaleLen == { 0, 2 }

(* what ansi_bar_percent(buf, buf_size, color, width, track, percent)      *)
(* leaves behind. With buf NULL strlen(buf) reads through NULL; with       *)
(* buf_size 0 buf_size - 1 is SIZE_MAX, strlen finds stale bytes in buf,   *)
(* and buf_size - stale wraps unless stale is 0                            *)
bar_percent_result(buf, buf_size, color, width, track, percent, stale) ==
  LET pct == IF percent < 0 THEN 0 ELSE IF percent > 100 THEN 100 ELSE percent
      r   == bar_result(buf, buf_size, color, width, track,
                        Double(pct), Double(0), Double(100), 0)
      sfx == <<" ">> \o fmt_d(pct) \o <<"%">>
      rec(ret, mem, bad) ==
        [ret |-> ret, mem |-> mem, buf |-> SubSeq(mem, 1, strlen(mem)), bad |-> bad]
  IN IF buf = NULL THEN rec("no return", <<>>, "read through NULL")
     ELSE IF buf_size = 0
     THEN IF stale = 0 THEN rec("buf", <<>>, "read outside the buffer")
          ELSE rec("buf", [i \in 1..stale |-> "?"] \o snprintf(0 - stale, sfx),
                   "write outside the buffer")
     ELSE LET len == strlen(r.mem)
          IN IF len < buf_size - 1
             THEN rec("buf", r.buf \o snprintf(buf_size - len, sfx), "no")
             ELSE rec("buf", r.mem, "no")

(* ansi_bar_percent on the fresh buffer of a test *)
ansi_bar_percent(buf, buf_size, color, width, track, percent) ==
  /\ pc = "idle"
  /\ bar.ret = "none"
  /\ \E stale \in StaleLen :
       LET r == bar_percent_result(buf, buf_size, color, width, track, percent, stale)
       IN bar' = [fn |-> "ansi_bar_percent",
                  args |-> <<buf, buf_size, color, width, track, percent>>,
                  written |-> r.mem # <<>>,
                  ret |-> r.ret, mem |-> r.mem, buf |-> r.buf, bad |-> r.bad]
  /\ UNCHANGED <<m_putc_function, m_flush_function, m_color_enabled, m_no_color_lock,
                 m_tag_state, m_default_fg, m_default_bg, m_num_fg, m_num_bg,
                 m_rainbow_idx, m_rainbow_len, m_gradient, capture_buf, fault,
                 env_vars, buf_vars, call_vars, last_call, thr, tui>>

(* the test function returns and its buffer goes out of scope *)
bar_release ==
  /\ bar.ret # "none"
  /\ bar' = NoBar
  /\ UNCHANGED <<m_putc_function, m_flush_function, m_color_enabled, m_no_color_lock,
                 m_tag_state, m_default_fg, m_default_bg, m_num_fg, m_num_bg,
                 m_rainbow_idx, m_rainbow_len, m_gradient, capture_buf, fault,
                 env_vars, buf_vars, call_vars, last_call, thr, tui>>

(* ----------------------------------------------------------------------- *)
(* Formatting into the scratch buffer                                      *)
(* ----------------------------------------------------------------------- *)

(* the text printf makes of fmt and the arguments ap: %d takes an int, %s  *)
(* a string, %*s a width and a string, %% is a percent sign                *)
RECURSIVE printf_text(_, _)
printf_text(f, ap) ==
  IF f = <<>> THEN <<>>
  ELSE IF f[1] = "%" /\ Len(f) >= 2 /\ f[2] = "d"
    THEN fmt_d(ap[1]) \o printf_text(SubSeq(f, 3, Len(f)), Tail(ap))
  ELSE IF f[1] = "%" /\ Len(f) >= 2 /\ f[2] = "s"
    THEN ap[1] \o printf_text(SubSeq(f, 3, Len(f)), Tail(ap))
  ELSE IF f[1] = "%" /\ Len(f) >= 3 /\ f[2] = "*" /\ f[3] = "s"
    THEN [i \in 1..(IF ap[1] > Len(ap[2]) THEN ap[1] - Len(ap[2]) ELSE 0) |-> " "]
         \o ap[2] \o printf_text(SubSeq(f, 4, Len(f)), Tail(Tail(ap)))
  ELSE IF f[1] = "%" /\ Len(f) >= 2 /\ f[2] = "%"
    THEN <<"%">> \o printf_text(SubSeq(f, 3, Len(f)), ap)
  ELSE <<f[1]>> \o printf_text(Tail(f), ap)

(* ansi_vformat: the pointer returned and the bytes stored in the scratch  *)
(* buffer; f is NullStr for a NULL format                                  *)
ansi_vformat_unguarded(f, ap, buf, buf_size, mem) ==
  [ret |-> buf, mem |-> snprintf(buf_size, printf_text(f, ap))]

ansi_vformat(f, ap, buf, buf_size, mem) ==
  IF f = NullStr \/ buf = NULL \/ buf_size = 0 THEN [ret |-> NULL, mem |-> mem]
  ELSE [ret |-> buf, mem |-> snprintf(buf_size, printf_text(f, ap))]

(* ansi_format(fmt, ...) *)
ansi_format(f, ap) ==
  /\ pc = "idle"
  /\ fmt' = ansi_vformat(f, ap, m_buf, m_buf_size, fmt.mem)
  /\ UNCHANGED <<m_putc_function, m_flush_function, m_color_enabled, m_no_color_lock,
                 m_tag_state, m_default_fg, m_default_bg, m_num_fg, m_num_bg,
                 m_rainbow_idx, m_rainbow_len, m_gradient, capture_buf, fault,
                 env_vars, call_vars, m_buf, m_buf_size>>

(* ansi_print(fmt, ...): format, then emit the string in the buffer *)
ansi_print(f, ap) ==
  /\ pc = "idle"
  /\ capture_buf = <<>>
  /\ LET r == ansi_vformat(f, ap, m_buf, m_buf_size, fmt.mem)
     IN /\ fmt' = [fmt EXCEPT !.mem = r.mem]
        /\ ansi_emit_call(IF r.ret = NULL THEN NullStr
                          ELSE SubSeq(r.mem, 1, strlen(r.mem)))
  /\ UNCHANGED <<m_no_color_lock, env_vars, m_buf, m_buf_size>>

(* ----------------------------------------------------------------------- *)
(* Two threads calling ansi_puts                                           *)
(* ----------------------------------------------------------------------- *)

(* The statics are shared; p and tok of ansi_emit are locals of the thread *)
(* that runs it. pc, str and pos are the locals of the running thread      *)
(* thr.cur, thr.other holds those of the thread that waits. With           *)
(* thr.locking the caller takes a mutex around each call.                  *)

(* the application decides, before its first call, to guard the calls *)
thread_use_mutex ==
  /\ pc = "idle"
  /\ thr = NoThreads
  /\ thr' = [thr EXCEPT !.locking = TRUE]
  /\ UNCHANGED <<m_putc_function, m_flush_function, m_color_enabled, m_no_color_lock,
                 m_tag_state, m_default_fg, m_default_bg, m_num_fg, m_num_bg,
                 m_rainbow_idx, m_rainbow_len, m_gradient, capture_buf, fault,
                 env_vars, buf_vars, call_vars, last_call, bar, tui>>

(* the mutex is free for the running thread, or no mutex is used *)
mutex_free_unchecked == TRUE

mutex_free == ~thr.locking \/ thr.owner = 0

(* the running thread calls ansi_puts(s), its only call *)
thread_puts(s) ==
  /\ pc = "idle"
  /\ thr.calls[thr.cur] = <<"none">>
  /\ mutex_free
  /\ ansi_emit_call(s)
  /\ thr' = [thr EXCEPT !.calls[thr.cur] = s,
                        !.owner = IF thr.locking THEN thr.cur ELSE 0]
  /\ UNCHANGED <<m_no_color_lock, env_vars, buf_vars, last_call, bar, tui>>

(* one turn of the token loop in the running thread *)
thread_step ==
  /\ ansi_emit_step
  /\ UNCHANGED <<buf_vars, last_call, bar, thr, tui>>

(* ansi_puts returns in the running thread, which releases the mutex *)
thread_return ==
  /\ ansi_emit_return
  /\ thr' = [thr EXCEPT !.owner = 0]
  /\ UNCHANGED <<buf_vars, last_call, bar, tui>>

(* the scheduler lets the other thread run *)
thread_switch ==
  /\ pc' = thr.other.pc
  /\ str' = thr.other.str
  /\ pos' = thr.other.pos
  /\ thr' = [thr EXCEPT !.cur = 3 - thr.cur,
                        !.other = [pc |-> pc, str |-> str, pos |-> pos]]
  /\ UNCHANGED <<m_putc_function, m_flush_function, m_color_enabled, m_no_color_lock,
                 m_tag_state, m_default_fg, m_default_bg, m_num_fg, m_num_bg,
                 m_rainbow_idx, m_rainbow_len, m_gradient, capture_buf, fault,
                 env_vars, buf_vars, last_call, bar, tui>>

(* ----------------------------------------------------------------------- *)
(* Inputs                                                                  *)
(* ----------------------------------------------------------------------- *)

Tag(content)      == <<"[">> \o content \o <<"]">>
CloseTag(content) == <<"[", "/">> \o content \o <<"]">>
Shortcode(name)   == <<":">> \o name \o <<":">>

AttrNames == {ATTRS[i].name : i \in 1..Len(ATTRS)}

w_red    == <<"r", "e", "d">>
w_cyan   == <<"c", "y", "a", "n">>
w_blue   == <<"b", "l", "u", "e">>
w_green  == <<"g", "r", "e", "e", "n">>
w_bold   == <<"b", "o", "l", "d">>
w_italic == <<"i", "t", "a", "l", "i", "c">>
w_on     == <<" ", "o", "n", " ">>
w_fire   == <<"f", "i", "r", "e">>
w_hi     == <<"h", "i">>

w_U41    == <<"U", "-", "4", "1">>
w_208    == <<"2", "0", "8">>
w_sp     == <<" ">>

(* the pieces that free-form inputs are concatenated from *)
Vocab ==
  { Tag(w_red), CloseTag(w_red), CloseTag(<<>>),
    Tag(w_bold \o w_sp \o w_italic), CloseTag(w_bold),
    Tag(w_cyan \o w_on \o w_blue), Tag(w_rainbow), <<"a">> }

MaxSegs == 2

RECURSIVE Concats(_)
Concats(n) ==
  IF n = 0 THEN {<<>>}
  ELSE {<<>>} \cup {v \o c : v \in Vocab, c \in Concats(n - 1)}

(* [X]hi[/X] and [X]hi[/] for every attribute name X *)
Pairs ==
  {Tag(x) \o w_hi \o CloseTag(x) : x \in AttrNames}
  \cup {Tag(x) \o w_hi \o CloseTag(<<>>) : x \in AttrNames}

(* the contents of the open tags and of the close tags of Closers *)
Opens ==
  { w_red, w_cyan \o w_on \o w_blue, w_bold \o w_sp \o w_italic,
    w_red \o w_sp \o w_bold, w_rainbow, w_bold \o w_sp \o w_rainbow,
    w_gradient \o w_sp \o w_red \o w_sp \o w_blue,
    w_fg \o w_208, w_fg \o w_208 \o w_on \o w_bg \o <<"1", "7">> }

Closes ==
  { <<>>, w_red, w_cyan, w_bold, w_italic \o w_sp \o w_bold,
    w_red \o w_on \o w_blue, w_cyan \o w_on \o w_blue, w_rainbow,
    w_gradient, w_fg \o w_208, w_fg \o w_208 \o w_on \o w_bg \o <<"1", "7">>,
    <<"n", "o">> }

(* [open]ab[/close] *)
Closers == {Tag(o) \o <<"a", "b">> \o CloseTag(c) : o \in Opens, c \in Closes}

(* [x]a[y]b[/z]: a colour replaced by a second one, then a close *)
Nested ==
  {Tag(x) \o <<"a">> \o Tag(y) \o <<"b">> \o CloseTag(z) :
     x \in {w_cyan, w_blue}, y \in {w_red, w_green}, z \in {w_red, w_cyan}}

(* shortcodes, escapes and plain text next to tags *)
Texts ==
  { Shortcode(w_fire) \o <<" ", "a", "l", "e", "r", "t">>,
    Shortcode(w_U41), Tag(w_red) \o Shortcode(w_U41) \o CloseTag(<<>>),
    <<"[", "[">> \o w_hi \o <<"]", "]">>, <<":", ":">>,
    Tag(w_bold) \o Shortcode(w_fire) \o <<"[", "[">> \o CloseTag(w_bold),
    Tag(w_rainbow) \o w_hi \o Shortcode(w_fire) \o CloseTag(w_rainbow),
    Tag(w_rainbow) \o <<"a", " ", "b">>, <<" ">>, Shortcode(w_fire),
    <<"x1B", "[", "1", "m", "a">> }

Inputs == Concats(MaxSegs) \cup Pairs \cup Closers \cup Nested \cup Texts

ColorArgs == {NullStr, w_green, w_bold, <<"n", "o">>}

(* ----------------------------------------------------------------------- *)
(* Specification: markup emission into the capture sink                    *)
(* ----------------------------------------------------------------------- *)

Next ==
  \/ ansi_init("capture_putc", "capture_flush", "fmt_buf", FmtBufSize) /\ UNCHANGED <<last_call, bar, thr, tui>>
  \/ \E v \in {0, 1} : ansi_set_enabled(v) /\ UNCHANGED <<last_call, bar, thr, tui>>
  \/ ansi_toggle /\ UNCHANGED <<last_call, bar, thr, tui>>
  \/ \E c \in ColorArgs : ansi_set_fg(c) /\ UNCHANGED <<last_call, bar, thr, tui>>
  \/ \E c \in ColorArgs : ansi_set_bg(c) /\ UNCHANGED <<last_call, bar, thr, tui>>
  \/ \E s \in Inputs : ansi_puts(s) /\ UNCHANGED <<last_call, bar, thr, tui>>
  \/ ansi_emit_step /\ UNCHANGED <<last_call, bar, thr, tui>>
  \/ ansi_emit_return /\ UNCHANGED <<last_call, bar, thr, tui>>
  \/ capture_reset /\ UNCHANGED <<last_call, bar, thr, tui>>

Spec == Init /\ [][Next]_vars

(* ----------------------------------------------------------------------- *)
(* Specification: the enable state, NO_COLOR and the injected functions    *)
(* ----------------------------------------------------------------------- *)

InitArgs == {"capture_putc", NULL} \X {"capture_flush", NULL}
EnabledArgs == {-1, 0, 1, 2}
EnableInputs ==
  { Tag(w_red) \o w_hi \o CloseTag(<<>>),
    Shortcode(w_fire) \o <<" ", "a">>,
    Tag(w_rainbow) \o w_hi }

NextEnable ==
  \/ \E fn \in InitArgs : ansi_init(fn[1], fn[2], "fmt_buf", FmtBufSize) /\ last_call' = "ansi_init" /\ UNCHANGED <<bar, thr, tui>>
  \/ ansi_enable /\ last_call' = "ansi_enable" /\ UNCHANGED <<bar, thr, tui>>
  \/ \E v \in EnabledArgs : ansi_set_enabled(v) /\ last_call' = "ansi_set_enabled" /\ UNCHANGED <<bar, thr, tui>>
  \/ ansi_toggle /\ last_call' = "ansi_toggle" /\ UNCHANGED <<bar, thr, tui>>
  \/ \E c \in {w_green} : ansi_set_fg(c) /\ last_call' = "ansi_set_fg" /\ UNCHANGED <<bar, thr, tui>>
  \/ \E s \in EnableInputs : ansi_puts(s) /\ last_call' = "ansi_puts" /\ UNCHANGED <<bar, thr, tui>>
  \/ ansi_emit_step /\ UNCHANGED <<last_call, bar, thr, tui>>
  \/ ansi_emit_return /\ UNCHANGED <<last_call, bar, thr, tui>>
  \/ capture_reset /\ UNCHANGED <<last_call, bar, thr, tui>>
  \/ \E b \in BOOLEAN : set_no_color(b) /\ UNCHANGED <<last_call, bar, thr, tui>>
  \/ \E t \in {0, 1} : set_isatty(t) /\ UNCHANGED <<last_call, bar, thr, tui>>

SpecEnable == InitStatic /\ [][NextEnable]_vars

(* ----------------------------------------------------------------------- *)
(* Widget layer (ansi_tui.c)                                               *)
(* ----------------------------------------------------------------------- *)

(* A widget function makes a sequence of calls of ansi_print.c.  The       *)
(* operators below give that sequence, one record per call: op names the   *)
(* call, s is its string or format, ap its other arguments.  tui_run makes *)
(* the calls.  A widget w is the const struct, ws is its state block (read *)
(* only when w.has_state).                                                 *)

TUI_TL == <<"xE2", "x95", "x94">>
TUI_TR == <<"xE2", "x95", "x97">>
TUI_BL == <<"xE2", "x95", "x9A">>
TUI_BR == <<"xE2", "x95", "x9D">>
TUI_HZ == <<"xE2", "x95", "x90">>
TUI_VT == <<"xE2", "x95", "x91">>

w_dim == <<"d", "i", "m">>

(* ansi_puts(s) from the widget layer, s not NULL *)
tui_puts(s) == << [op |-> "puts", s |-> s, ap |-> <<>>] >>

(* ansi_print(f, ...) from the widget layer *)
tui_print(f, ap) == << [op |-> "print", s |-> f, ap |-> ap] >>

(* ansi_bar(w->bar_buf, ...) and ansi_bar_percent(w->bar_buf, ...) *)
tui_bar(w, color, value, min, max) ==
  << [op |-> "bar", s |-> color,
      ap |-> <<w.bar_buf, w.bar_buf_size, w.bar_width, w.track, value, min, max>>] >>

tui_bar_percent(w, color, pct) ==
  << [op |-> "bar_percent", s |-> color,
      ap |-> <<w.bar_buf, w.bar_buf_size, w.bar_width, w.track, pct>>] >>

(* ansi_print("%s", w->bar_buf) *)
tui_print_bar == << [op |-> "print_bar", s |-> <<"%", "s">>, ap |-> <<>>] >>

tui_goto(row, col) ==
  tui_puts(<<"x1B", "[">> \o fmt_d(row) \o <<";">> \o fmt_d(col) \o <<"H">>)

tui_pad(n) == IF n <= 0 THEN <<>> ELSE tui_print(<<"%", "*", "s">>, <<n, <<>> >>)

(* the absolute position of (row, col) under the chain of parent frames;   *)
(* parent is the chain from the nearest frame outwards, <<>> for NULL      *)
RECURSIVE tui_resolve(_, _, _)
tui_resolve(parent, row, col) ==
  IF parent = <<>> THEN [row |-> row, col |-> col]
  ELSE LET r == IF row < 0 THEN row + (parent[1].height - 2) + 1 ELSE row
           c == IF col < 0 THEN col + (parent[1].width - 4) + 1 ELSE col
       IN tui_resolve(Tail(parent), r + parent[1].row, c + parent[1].col + 1)

tui_interior_col(border, col) == IF border THEN col + 2 ELSE col
tui_interior_row(border, row) == IF border THEN row + 1 ELSE row

(* count times TUI_HZ *)
tui_fill_horz(count) ==
  LET n == IF count > 0 THEN count ELSE 0
  IN [i \in 1..(3 * n) |-> TUI_HZ[((i - 1) % 3) + 1]]

(* ansi_puts of a line built in the scratch buffer (a line that fits) *)
tui_puts_buf(text) == << [op |-> "puts_buf", s |-> text, ap |-> <<>>] >>

(* tui_draw_border for an interior height of 1; color is NullStr for NULL  *)
tui_draw_border(row, col, iw, color, fill) ==
  IF m_buf = NULL \/ m_buf_size < 32 THEN <<>>
  ELSE
    LET o == IF color # NullStr THEN Tag(color) ELSE <<>>
        c == IF color # NullStr THEN CloseTag(<<>>) ELSE <<>>
    IN tui_goto(row, col)
       \o tui_puts_buf(o \o TUI_TL \o tui_fill_horz(iw + 2) \o TUI_TR \o c)
       \o tui_goto(row + 1, col)
       \o (IF fill # 0
           THEN tui_puts_buf(o \o TUI_VT \o c
                             \o [i \in 1..(IF iw + 2 > 0 THEN iw + 2 ELSE 0) |-> " "]
                             \o o \o TUI_VT \o c)
           ELSE tui_puts_buf(o \o TUI_VT \o c \o o \o c)
                \o tui_goto(row + 1, col + iw + 3)
                \o tui_puts_buf(o \o TUI_VT \o c))
       \o tui_goto(row + 2, col)
       \o tui_puts_buf(o \o TUI_BL \o tui_fill_horz(iw + 2) \o TUI_BR \o c)

(* tui_place_goto: the calls, and the interior position *)
tui_place_goto(p, col) ==
  LET a  == tui_resolve(p.parent, p.row, col)
      ir == tui_interior_row(p.border, a.row)
      ic == tui_interior_col(p.border, a.col)
  IN [ops |-> tui_goto(ir, ic), ir |-> ir, ic |-> ic]

tui_widget_chrome(p, col, iw, color) ==
  LET a  == tui_resolve(p.parent, p.row, col)
      ir == tui_interior_row(p.border, a.row)
      ic == tui_interior_col(p.border, a.col)
  IN [ops |-> (IF p.border THEN tui_draw_border(a.row, a.col, iw, color, 1) ELSE <<>>)
              \o tui_goto(ir, ic),
      ir |-> ir, ic |-> ic]

tui_center_col(col, parent, iw, border) ==
  IF col # 0 \/ parent = <<>> THEN col
  ELSE LET piw == parent[1].width - 4
           total == iw + (IF border THEN 4 ELSE 0)
           centered == CDiv(piw - total, 2) + 1
       IN IF centered > 0 THEN centered ELSE 1

label_len(w) == IF w.label # NullStr THEN Len(w.label) ELSE 0

(* == of two doubles: false when one is a NaN *)
dbl_eq(a, b) == ~a.nan /\ ~b.nan /\ a.n = b.n

(* a widget call that returns before it does anything *)
tui_nothing(ws) == [ops |-> <<>>, ws |-> ws]

(* the calls of pre, then what the widget call u does *)
tui_then(pre, u) == [u EXCEPT !.ops = pre \o @]

(* ---- bar ---- *)

tui_bar_update(w, ws, value, min, max, force) ==
  IF w.bar_buf = NULL THEN tui_nothing(ws)
  ELSE IF w.has_state /\ ws.enabled = 0 THEN tui_nothing(ws)
  ELSE IF force = 0 /\ w.has_state /\ dbl_eq(ws.value, value)
          /\ dbl_eq(ws.min, min) /\ dbl_eq(ws.max, max) THEN tui_nothing(ws)
  ELSE
    LET g == tui_place_goto(w.place, w.place.col)
    IN [ops |-> tui_bar(w, w.place.color, value, min, max)
                \o g.ops \o tui_goto(g.ir, g.ic + label_len(w)) \o tui_print_bar,
        ws |-> IF w.has_state
               THEN [ws EXCEPT !.value = value, !.min = min, !.max = max] ELSE ws]

tui_bar_init(w, ws) ==
  LET ws1 == IF w.has_state THEN [ws EXCEPT !.enabled = 1] ELSE ws
      g   == tui_widget_chrome(w.place, w.place.col, label_len(w) + w.bar_width,
                               w.place.color)
  IN tui_then(g.ops \o (IF w.label # NullStr THEN tui_puts(w.label) ELSE <<>>),
              tui_bar_update(w, ws1, Double(0), Double(0), Double(100), 1))

(* the label of a bar as tui_bar_enable and tui_pbar_enable write it *)
tui_label(w, enabled) ==
  IF w.label = NullStr THEN <<>>
  ELSE IF enabled = 0
  THEN tui_print(Tag(w_dim) \o <<"%", "s">> \o CloseTag(<<>>), <<w.label>>)
  ELSE tui_puts(w.label)

tui_bar_enable(w, ws, enabled) ==
  IF ~w.has_state THEN tui_nothing(ws)
  ELSE
    LET ws1 == [ws EXCEPT !.enabled = enabled]
        g   == tui_widget_chrome(w.place, w.place.col, label_len(w) + w.bar_width,
                                 IF enabled # 0 THEN w.place.color ELSE w_dim)
    IN IF enabled # 0
       THEN tui_then(g.ops \o tui_label(w, enabled),
                     tui_bar_update(w, [ws1 EXCEPT !.enabled = 1],
                                    ws.value, ws.min, ws.max, 1))
       ELSE IF w.bar_buf = NULL
       THEN [ops |-> g.ops \o tui_label(w, enabled), ws |-> ws1]
       ELSE [ops |-> g.ops \o tui_label(w, enabled)
                     \o tui_bar(w, w_dim, Double(0), Double(0), Double(100))
                     \o tui_goto(g.ir, g.ic + label_len(w)) \o tui_print_bar,
             ws |-> ws1]

(* ---- percent bar ---- *)

(* the comparison of tui_pbar_update made with the percent as it came *)
pbar_same_unclamped(stored, percent, pct) == stored = percent

pbar_same(stored, percent, pct) == stored = pct

tui_pbar_update(w, ws, percent, force) ==
  IF w.bar_buf = NULL THEN tui_nothing(ws)
  ELSE IF w.has_state /\ ws.enabled = 0 THEN tui_nothing(ws)
  ELSE
    LET pct == IF percent < 0 THEN 0 ELSE IF percent > 100 THEN 100 ELSE percent IN
    IF force = 0 /\ w.has_state /\ pbar_same(ws.percent, percent, pct)
    THEN tui_nothing(ws)
    ELSE
      LET g == tui_place_goto(w.place, w.place.col)
          bar_col == g.ic + label_len(w)
      IN [ops |-> tui_bar_percent(w, w.place.color, pct) \o g.ops
                  \o tui_goto(g.ir, bar_col) \o tui_pad(w.bar_width + 5)
                  \o tui_goto(g.ir, bar_col) \o tui_print_bar,
          ws |-> IF w.has_state THEN [ws EXCEPT !.percent = pct] ELSE ws]

tui_pbar_init(w, ws) ==
  LET ws1 == IF w.has_state THEN [ws EXCEPT !.enabled = 1] ELSE ws
      g   == tui_widget_chrome(w.place, w.place.col, label_len(w) + w.bar_width + 5,
                               w.place.color)
  IN tui_then(g.ops \o (IF w.label # NullStr THEN tui_puts(w.label) ELSE <<>>),
              tui_pbar_update(w, ws1, 0, 1))

tui_pbar_enable(w, ws, enabled) ==
  IF ~w.has_state THEN tui_nothing(ws)
  ELSE
    LET ws1 == [ws EXCEPT !.enabled = enabled]
        g   == tui_widget_chrome(w.place, w.place.col, label_len(w) + w.bar_width + 5,
                                 IF enabled # 0 THEN w.place.color ELSE w_dim)
        bar_col == g.ic + label_len(w)
    IN IF enabled # 0
       THEN tui_then(g.ops \o tui_label(w, enabled),
                     tui_pbar_update(w, [ws1 EXCEPT !.enabled = 1], ws.percent, 1))
       ELSE IF w.bar_buf = NULL
       THEN [ops |-> g.ops \o tui_label(w, enabled), ws |-> ws1]
       ELSE [ops |-> g.ops \o tui_label(w, enabled)
                     \o tui_bar_percent(w, w_dim, 0)
                     \o tui_goto(g.ir, bar_col) \o tui_pad(w.bar_width + 5)
                     \o tui_goto(g.ir, bar_col) \o tui_print_bar,
             ws |-> ws1]

(* ---- check ---- *)

check_mark  == Tag(w_green) \o Shortcode(<<"c", "h", "e", "c", "k">>) \o CloseTag(<<>>)
cross_mark  == Tag(w_red) \o Shortcode(<<"c", "r", "o", "s", "s">>) \o CloseTag(<<>>)
dim_mark    == Tag(w_dim) \o Shortcode(<<"c", "r", "o", "s", "s">>) \o CloseTag(<<>>)

check_interior_width(w) == 2 + 1 + label_len(w)

tui_check_init(w, ws, state) ==
  LET g == tui_widget_chrome(w.place, w.place.col,
                             IF w.width > 0 THEN w.width ELSE check_interior_width(w),
                             w.place.color)
  IN [ops |-> g.ops \o tui_puts(IF state # 0 THEN check_mark ELSE cross_mark)
              \o (IF w.label # NullStr THEN tui_puts(<<" ">>) \o tui_puts(w.label)
                  ELSE <<>>),
      ws |-> IF w.has_state THEN [ws EXCEPT !.enabled = 1, !.checked = state] ELSE ws]

tui_check_update(w, ws, state, force) ==
  IF w.has_state /\ ws.enabled = 0 THEN tui_nothing(ws)
  ELSE IF force = 0 /\ w.has_state /\ ws.checked = state THEN tui_nothing(ws)
  ELSE [ops |-> tui_place_goto(w.place, w.place.col).ops
                \o tui_puts(IF state # 0 THEN check_mark ELSE cross_mark),
        ws |-> IF w.has_state THEN [ws EXCEPT !.checked = state] ELSE ws]

(* tui_check_toggle passing the stored state on as it is *)
tui_check_toggle_same(w, ws) ==
  IF ~w.has_state THEN tui_nothing(ws)
  ELSE tui_check_update(w, ws, ws.checked, 1)

tui_check_toggle(w, ws) ==
  IF ~w.has_state THEN tui_nothing(ws)
  ELSE tui_check_update(w, ws, IF ws.checked = 0 THEN 1 ELSE 0, 1)

tui_check_enable(w, ws, enabled) ==
  IF ~w.has_state THEN tui_nothing(ws)
  ELSE
    LET g == tui_widget_chrome(w.place, w.place.col,
                               IF w.width > 0 THEN w.width ELSE check_interior_width(w),
                               IF enabled # 0 THEN w.place.color ELSE w_dim)
    IN [ops |-> g.ops
                \o tui_puts(IF enabled # 0
                            THEN (IF ws.checked # 0 THEN check_mark ELSE cross_mark)
                            ELSE dim_mark)
                \o (IF w.label = NullStr THEN <<>>
                    ELSE tui_puts(<<" ">>) \o tui_label(w, enabled)),
        ws |-> [ws EXCEPT !.enabled = enabled]]

(* ---- metric ---- *)

(* snprintf(vbuf, 64, "%.1f", value) for a whole value *)
metric_value_text(value) ==
  IF value.nan THEN <<"n", "a", "n">> ELSE fmt_d(value.n) \o <<".", "0">>

(* value < thresh_lo and value > thresh_hi are both false for a NaN *)
metric_zone(w, value) ==
  IF ~value.nan /\ value.n < w.thresh_lo THEN -1
  ELSE IF ~value.nan /\ value.n > w.thresh_hi THEN 1
  ELSE 0

metric_color(w, zone) ==
  IF zone = -1 THEN w.color_lo
  ELSE IF zone = 1 THEN w.color_hi
  ELSE w.place.color

metric_draw_title(w, ar, ac, color) ==
  IF w.title = NullStr \/ w.title = <<>> THEN <<>>
  ELSE LET title_len == Len(w.title)
           off    == CDiv(w.width + 2 - title_len - 2, 2)
           offset == IF off < 0 THEN 0 ELSE off
       IN tui_goto(ar, ac + 1 + offset)
          \o (IF color # NullStr
              THEN tui_print(<<" ">> \o Tag(w_bold \o <<" ", "%", "s">>) \o <<"%", "s">>
                               \o CloseTag(<<>>) \o <<" ">>,
                             <<color, w.title>>)
              ELSE tui_print(<<" ">> \o Tag(w_bold) \o <<"%", "s">>
                               \o CloseTag(<<>>) \o <<" ">>,
                             <<w.title>>))

metric_draw_value(w, ar, ac, value, zone_color) ==
  LET vbuf == metric_value_text(value)
      vlen == Len(vbuf)
      fill == w.width + 2
      lp   == CDiv(fill - vlen, 2)
      left_pad  == IF lp < 0 THEN 0 ELSE lp
      rp   == fill - vlen - left_pad
      right_pad == IF rp < 0 THEN 0 ELSE rp
  IN tui_goto(ar + 1, ac + 1)
     \o tui_print(<<"%", "*", "s">> \o Tag(<<"%", "s">>) \o <<"%", "s">> \o CloseTag(<<>>)
                    \o <<"%", "*", "s">>,
                  <<left_pad, <<>>, zone_color, vbuf, right_pad, <<>> >>)

metric_at(w) ==
  tui_resolve(w.place.parent, w.place.row,
              tui_center_col(w.place.col, w.place.parent, w.width, w.place.border))

tui_metric_init(w, ws) ==
  LET a == metric_at(w)
  IN [ops |-> tui_draw_border(a.row, a.col, w.width, w.place.color, 0)
              \o metric_draw_title(w, a.row, a.col, w.place.color)
              \o tui_goto(a.row + 1, a.col + 1) \o tui_pad(w.width + 2),
      ws |-> IF w.has_state
             THEN [ws EXCEPT !.enabled = 1, !.value = Double(0), !.zone = 0] ELSE ws]

tui_metric_update(w, ws, value, force) ==
  IF w.has_state /\ ws.enabled = 0 THEN tui_nothing(ws)
  ELSE IF force = 0 /\ w.has_state /\ dbl_eq(ws.value, value) THEN tui_nothing(ws)
  ELSE
    LET zone  == metric_zone(w, value)
        color == metric_color(w, zone)
        a     == metric_at(w)
        need_border == IF w.has_state THEN force # 0 \/ zone # ws.zone ELSE TRUE
    IN [ops |-> (IF need_border
                 THEN tui_draw_border(a.row, a.col, w.width, color, 0)
                      \o metric_draw_title(w, a.row, a.col, color)
                 ELSE <<>>)
                \o metric_draw_value(w, a.row, a.col, value, color),
        ws |-> IF w.has_state THEN [ws EXCEPT !.zone = zone, !.value = value] ELSE ws]

tui_metric_enable(w, ws, enabled) ==
  IF ~w.has_state THEN tui_nothing(ws)
  ELSE
    LET ws1 == [ws EXCEPT !.enabled = enabled]
        a   == metric_at(w)
    IN IF enabled # 0
       THEN tui_metric_update(w, [ws1 EXCEPT !.zone = -2], ws.value, 1)
       ELSE [ops |-> tui_draw_border(a.row, a.col, w.width, w_dim, 0)
                     \o metric_draw_title(w, a.row, a.col, w_dim)
                     \o tui_goto(a.row + 1, a.col + 1) \o tui_pad(w.width + 2),
             ws |-> ws1]

(* ---- the widget a test makes, and the calls on it ---- *)

(* a state block before tui_*_init has written it *)
NoState == [enabled |-> 0, value |-> Double(0), min |-> Double(0), max |-> Double(0),
            percent |-> 0, checked |-> 0, zone |-> 0]

(* what one call of a widget function does before it writes to the sink:  *)
(* the string it hands to ansi_emit (NullStr when it hands none), the      *)
(* scratch buffer and the bar buffer after it                              *)
tui_formatted(r, bar_buf) ==
  [s |-> IF r.ret = NULL THEN NullStr ELSE SubSeq(r.mem, 1, strlen(r.mem)),
   mem |-> r.mem, bar_buf |-> bar_buf]

tui_prepare(o, mem, bar_buf) ==
  CASE o.op = "puts" -> [s |-> o.s, mem |-> mem, bar_buf |-> bar_buf]
    [] o.op \in {"print", "print_bar"} ->
         tui_formatted(ansi_vformat(o.s, IF o.op = "print" THEN o.ap ELSE <<bar_buf>>,
                                    m_buf, m_buf_size, mem), bar_buf)
    [] o.op = "puts_buf" ->
         tui_formatted([ret |-> m_buf, mem |-> snprintf(m_buf_size, o.s)], bar_buf)
    [] o.op = "bar" ->
         [s |-> NullStr, mem |-> mem,
          bar_buf |-> bar_result(o.ap[1], o.ap[2], o.s, o.ap[3], o.ap[4],
                                 o.ap[5], o.ap[6], o.ap[7], 0).buf]
    [] o.op = "bar_percent" ->
         [s |-> NullStr, mem |-> mem,
          bar_buf |-> bar_percent_result(o.ap[1], o.ap[2], o.s, o.ap[3], o.ap[4],
                                         o.ap[5], 0).buf]

(* the call made: c is what tui_prepare found *)
tui_made(m, c) ==
  [m |-> IF c.s = NullStr THEN m ELSE ansi_emit(m, c.s), mem |-> c.mem,
   bar_buf |-> c.bar_buf]

(* the calls of ops from the i-th on; st holds the statics and the sink,   *)
(* the scratch buffer and the bar buffer.  Each call's result is bound as  *)
(* a value before the next call                                            *)
RECURSIVE tui_run(_, _, _)
tui_run(st, ops, i) ==
  IF i > Len(ops) THEN st
  ELSE CHOOSE r \in
         { tui_run(st1, ops, i + 1) :
             st1 \in { tui_made(st.m, c) :
                         c \in {tui_prepare(ops[i], st.mem, st.bar_buf)} } } : TRUE

(* a widget function is entered: r holds the calls it is going to make and *)
(* the state block it leaves; tui.call keeps the call, the state block it  *)
(* found and whether it makes any call                                     *)
tui_store(w, r, fn, args, before, bar_buf) ==
  /\ tui' = [kind |-> w.kind, w |-> w, ws |-> r.ws, bar_buf |-> bar_buf,
             pending |-> r.ops,
             call |-> [fn |-> fn, args |-> args, before |-> before,
                       drew |-> r.ops # <<>>]]
  /\ pc' = IF r.ops = <<>> THEN "idle" ELSE "tui"
  /\ UNCHANGED <<m_putc_function, m_flush_function, m_color_enabled, m_no_color_lock,
                 m_tag_state, m_default_fg, m_default_bg, m_num_fg, m_num_bg,
                 m_rainbow_idx, m_rainbow_len, m_gradient, capture_buf, fault,
                 env_vars, buf_vars, str, pos, last_call, bar, thr>>

(* the widget function makes its calls and returns *)
tui_draw ==
  /\ pc = "tui"
  /\ \E st \in { tui_run([m |-> Statics, mem |-> fmt.mem, bar_buf |-> tui.bar_buf],
                         tui.pending, 1) } :
       /\ Store(st.m)
       /\ fmt' = [fmt EXCEPT !.mem = st.mem]
       /\ tui' = [tui EXCEPT !.bar_buf = st.bar_buf, !.pending = <<>>]
  /\ pc' = "idle"
  /\ UNCHANGED <<m_no_color_lock, env_vars, m_buf, m_buf_size, str, pos, last_call,
                 bar, thr>>

tui_idle == pc = "idle" /\ capture_buf = <<>>

do_tui_bar_init(w) ==
  /\ tui_idle /\ tui.kind = "none" /\ w.kind = "bar"
  /\ tui_store(w, tui_bar_init(w, NoState), "init", <<>>, NoState, <<>>)

do_tui_pbar_init(w) ==
  /\ tui_idle /\ tui.kind = "none" /\ w.kind = "pbar"
  /\ tui_store(w, tui_pbar_init(w, NoState), "init", <<>>, NoState, <<>>)

do_tui_check_init(w, state) ==
  /\ tui_idle /\ tui.kind = "none" /\ w.kind = "check"
  /\ tui_store(w, tui_check_init(w, NoState, state), "init", <<state>>, NoState, <<>>)

do_tui_metric_init(w) ==
  /\ tui_idle /\ tui.kind = "none" /\ w.kind = "metric"
  /\ tui_store(w, tui_metric_init(w, NoState), "init", <<>>, NoState, <<>>)

do_tui_bar_update(value, min, max, force) ==
  /\ tui_idle /\ tui.kind = "bar"
  /\ tui_store(tui.w, tui_bar_update(tui.w, tui.ws, value, min, max, force),
               "update", <<value, min, max, force>>, tui.ws, tui.bar_buf)

do_tui_pbar_update(percent, force) ==
  /\ tui_idle /\ tui.kind = "pbar"
  /\ tui_store(tui.w, tui_pbar_update(tui.w, tui.ws, percent, force),
               "update", <<percent, force>>, tui.ws, tui.bar_buf)

do_tui_check_update(state, force) ==
  /\ tui_idle /\ tui.kind = "check"
  /\ tui_store(tui.w, tui_check_update(tui.w, tui.ws, state, force),
               "update", <<state, force>>, tui.ws, tui.bar_buf)

do_tui_metric_update(value, force) ==
  /\ tui_idle /\ tui.kind = "metric"
  /\ tui_store(tui.w, tui_metric_update(tui.w, tui.ws, value, force),
               "update", <<value, force>>, tui.ws, tui.bar_buf)

do_tui_check_toggle ==
  /\ tui_idle /\ tui.kind = "check"
  /\ tui_store(tui.w, tui_check_toggle(tui.w, tui.ws), "toggle", <<>>, tui.ws,
               tui.bar_buf)

do_tui_enable(enabled) ==
  /\ tui_idle /\ tui.kind # "none"
  /\ tui_store(tui.w,
               CASE tui.kind = "bar"  -> tui_bar_enable(tui.w, tui.ws, enabled)
                 [] tui.kind = "pbar" -> tui_pbar_enable(tui.w, tui.ws, enabled)
                 [] tui.kind = "check" -> tui_check_enable(tui.w, tui.ws, enabled)
                 [] tui.kind = "metric" -> tui_metric_enable(tui.w, tui.ws, enabled),
               "enable", <<enabled>>, tui.ws, tui.bar_buf)

(* the widget and its state block go out of scope *)
tui_release ==
  /\ tui_idle /\ tui.kind # "none"
  /\ tui' = NoTui
  /\ UNCHANGED <<m_putc_function, m_flush_function, m_color_enabled, m_no_color_lock,
                 m_tag_state, m_default_fg, m_default_bg, m_num_fg, m_num_bg,
                 m_rainbow_idx, m_rainbow_len, m_gradient, capture_buf, fault,
                 env_vars, buf_vars, call_vars, last_call, bar, thr>>

(* ----------------------------------------------------------------------- *)
(* Observers used by the properties                                        *)
(* ----------------------------------------------------------------------- *)

(* the token the loop of ansi_emit reads next, and the content of a tag *)
CurTok == next_markup_token(str, pos)
TagOf(s, tok) == SubSeq(s, tok.ptr, tok.ptr + tok.len - 1)
CurTag == TagOf(str, CurTok)

(* the tokens of s, as the loop of ansi_emit reads them *)
RECURSIVE tokens_from(_, _)
tokens_from(s, p) ==
  LET tok == next_markup_token(s, p) IN
  IF tok.type = "TOK_END" THEN <<>> ELSE <<tok>> \o tokens_from(s, tok.pos)

(* the step handles a tag; a close tag; the empty close tag *)
TagStep == pc = "emit" /\ CurTok.type = "TOK_TAG"
CloseStep == TagStep /\ CurTok.len >= 1 /\ At(str, CurTok.ptr) = "/"
CloseAllStep == CloseStep /\ CurTok.len = 1
SelectiveCloseStep == CloseStep /\ CurTok.len > 1

(* what the sink received: text bytes, escape sequences, flushes *)
ByteSet == {BYTES[i] : i \in 1..Len(BYTES)}
IsEscape(e) == e \notin ByteSet /\ e # FLUSH
Strip(out) == SelectSeq(out, LAMBDA e : ~IsEscape(e))

(* what the step appended to the sink *)
NewOut == SubSeq(capture_buf', Len(capture_buf) + 1, Len(capture_buf'))

NonNull(codes) == SelectSeq(codes, LAMBDA c : c # NULL)

IsColorName(w) == lookup_attr(w) # 0 /\ ATTRS[lookup_attr(w)].style = 0
FgOf(w) == ATTRS[lookup_attr(w)].fg_code

(* ----------------------------------------------------------------------- *)
(* Properties of the tag state machine (Spec)                              *)
(* ----------------------------------------------------------------------- *)

(* the input is [x]a[y]b[/z] for colour names x, y, z with x # y *)
NestedCase(ts) ==
  /\ Len(ts) = 5
  /\ ts[1].type = "TOK_TAG" /\ ts[2].type = "TOK_CHAR" /\ ts[3].type = "TOK_TAG"
  /\ ts[4].type = "TOK_CHAR" /\ ts[5].type = "TOK_TAG"
  /\ IsColorName(TagOf(str, ts[1])) /\ IsColorName(TagOf(str, ts[3]))
  /\ TagOf(str, ts[1]) # TagOf(str, ts[3])
  /\ ts[5].len > 1 /\ At(str, ts[5].ptr) = "/"
  /\ IsColorName(Tail(TagOf(str, ts[5])))

(* C1: TagState is one foreground, one background and one style mask, not  *)
(* a stack.  A close tag either leaves the active foreground (background)  *)
(* alone or replaces it by the process default, so it never brings back a  *)
(* colour that a later open tag replaced; after [x]a[y]b[/y] the active    *)
(* foreground is the default, and after [x]a[y]b[/x] it is still y.        *)
C1_NoTagStack ==
  /\ [][(CloseStep /\ m_color_enabled # 0) =>
          /\ m_tag_state'.fg_code \in {m_tag_state.fg_code, m_default_fg}
          /\ m_tag_state'.bg_code \in {m_tag_state.bg_code, m_default_bg}]_vars
  /\ [](pc = "flushed" /\ m_color_enabled # 0 /\ NestedCase(tokens_from(str, 1)) =>
          LET ts == tokens_from(str, 1)
              y  == TagOf(str, ts[3])
              z  == Tail(TagOf(str, ts[5]))
          IN m_tag_state.fg_code = IF z = y THEN m_default_fg ELSE FgOf(y))

C1_Witness ==
  /\ pc = "flushed"
  /\ m_color_enabled # 0
  /\ str = Tag(w_cyan) \o <<"a">> \o Tag(w_red) \o <<"b">> \o CloseTag(w_red)
  /\ m_default_fg = FgOf(w_green)
  /\ m_tag_state.fg_code = FgOf(w_green)

(* C2: with color enabled, [/] emits the reset escape, then the default    *)
(* foreground and the default background escapes, each iff it is set, and  *)
(* nothing else; TagState becomes the two defaults with no style bit set   *)
(* (the rainbow and gradient bits included).                               *)
C2_CloseAll ==
  [][(CloseAllStep /\ m_color_enabled # 0) =>
       /\ NewOut = <<RESET>> \o NonNull(<<m_default_fg, m_default_bg>>)
       /\ m_tag_state' = TagState(m_default_fg, m_default_bg, 0)]_vars

(* [bold rainbow]ab[/] has just been closed with a default background set *)
C2_Witness ==
  /\ pc = "emit"
  /\ m_color_enabled # 0
  /\ str = Tag(w_bold \o w_sp \o w_rainbow) \o <<"a", "b">> \o CloseTag(<<>>)
  /\ pos = Len(str) + 1
  /\ m_default_fg = NULL
  /\ m_default_bg = ATTRS[lookup_attr(w_green)].bg_code
  /\ m_tag_state = TagState(NULL, m_default_bg, 0)
  /\ SubSeq(capture_buf, Len(capture_buf) - 1, Len(capture_buf)) = <<RESET, m_default_bg>>

(* the escapes of the attributes held in a TagState: foreground, then      *)
(* background, then the styles in the order of their bits                  *)
StateCodes(ts, num_fg, num_bg) ==
  LET text(ptr) == IF ptr = "m_num_fg" THEN num_fg
                   ELSE IF ptr = "m_num_bg" THEN num_bg ELSE ptr
      on(bit, code) == IF HasBit(ts.styles, bit) THEN code ELSE NULL
  IN NonNull(<<text(ts.fg_code), text(ts.bg_code),
               on(STYLE_BOLD, BOLD), on(STYLE_DIM, DIM), on(STYLE_ITALIC, ITALIC),
               on(STYLE_UNDERLINE, UNDERLINE), on(STYLE_INVERT, INVERT),
               on(STYLE_STRIKE, STRIKETHROUGH)>>)

StyleBits == {STYLE_BOLD, STYLE_DIM, STYLE_ITALIC, STYLE_UNDERLINE, STYLE_INVERT,
              STYLE_STRIKE, STYLE_RAINBOW, STYLE_GRADIENT}

(* the style bits that the words of a close tag name *)
NamedStyles(tag) ==
  {ATTRS[lookup_attr(w)].style :
     w \in {v \in {Words(tag)[i] : i \in 1..Len(Words(tag))} : lookup_attr(v) # 0}}
  \cup (IF has_prefix(tag, w_gradient) THEN {STYLE_GRADIENT} ELSE {})

(* C3: with color enabled, a close tag [/words] emits the reset escape     *)
(* followed by the escapes of exactly the attributes TagState holds after  *)
(* it (foreground, background, each set style), and no style bit that the  *)
(* tag does not name changes.                                              *)
C3_SelectiveClose ==
  [][(SelectiveCloseStep /\ m_color_enabled # 0) =>
       /\ NewOut = <<RESET>> \o StateCodes(m_tag_state', m_num_fg', m_num_bg')
       /\ \A b \in StyleBits \ NamedStyles(Tail(CurTag)) :
            HasBit(m_tag_state'.styles, b) = HasBit(m_tag_state.styles, b)]_vars

(* [bold italic]ab[/bold] has just been closed: italic is reapplied *)
C3_Witness ==
  /\ pc = "emit"
  /\ m_color_enabled # 0
  /\ str = Tag(w_bold \o w_sp \o w_italic) \o <<"a", "b">> \o CloseTag(w_bold)
  /\ pos = Len(str) + 1
  /\ m_tag_state.styles = STYLE_ITALIC
  /\ SubSeq(capture_buf, Len(capture_buf) - 1, Len(capture_buf)) = <<RESET, ITALIC>>

(* the input is [X]hi[/X]-like: one attribute name opened, plain           *)
(* characters, the same name closed                                        *)
PairCase(ts) ==
  /\ Len(ts) >= 3
  /\ ts[1].type = "TOK_TAG" /\ ts[Len(ts)].type = "TOK_TAG"
  /\ \A i \in 2..(Len(ts) - 1) : ts[i].type = "TOK_CHAR"
  /\ lookup_attr(TagOf(str, ts[1])) # 0
  /\ TagOf(str, ts[Len(ts)]) = <<"/">> \o TagOf(str, ts[1])

(* C4 as the specification states it: after [X]text[/X], for every         *)
(* recognized attribute X and every setting of the defaults, the           *)
(* foreground, background and styles of TagState are the process defaults. *)
C4_PairRestoresBaseline ==
  (pc = "flushed" /\ m_color_enabled # 0 /\ PairCase(tokens_from(str, 1)))
    => m_tag_state = TagState(m_default_fg, m_default_bg, 0)

(* the input is [X]t[/] for a colour name X and plain one-byte text t *)
ResetCase(ts) ==
  /\ Len(ts) >= 2
  /\ ts[1].type = "TOK_TAG" /\ IsColorName(TagOf(str, ts[1]))
  /\ ts[Len(ts)].type = "TOK_TAG" /\ TagOf(str, ts[Len(ts)]) = <<"/">>
  /\ \A i \in 2..(Len(ts) - 1) : ts[i].type = "TOK_CHAR" /\ ts[i].len = 1

Contains(out, t) ==
  \E k \in 0..(Len(out) - Len(t)) : SubSeq(out, k + 1, k + Len(t)) = t

(* C5: with color enabled, for a colour name X and tag-free text t, the    *)
(* output of [X]t[/] begins with the foreground escape of X, contains t    *)
(* and ends with the reset escape (the flush follows it).                  *)
C5_ColorThenReset ==
  (pc = "flushed" /\ m_color_enabled # 0 /\ ResetCase(tokens_from(str, 1))) =>
    LET ts == tokens_from(str, 1)
        t  == SubSeq(str, ts[1].pos, ts[Len(ts)].ptr - 2)
        n  == Len(capture_buf)
    IN /\ n >= 3
       /\ capture_buf[1] = FgOf(TagOf(str, ts[1]))
       /\ Contains(capture_buf, t)
       /\ capture_buf[n - 1] = RESET
       /\ capture_buf[n] = FLUSH

(* [bright_cyan]hi[/] emitted while a default foreground is set *)
C5_Witness ==
  /\ pc = "flushed"
  /\ m_color_enabled # 0
  /\ m_default_fg = FgOf(w_green)
  /\ str = Tag(<<"b", "r", "i", "g", "h", "t", "_">> \o w_cyan) \o w_hi \o CloseTag(<<>>)
  /\ capture_buf = <<"ESC[96m", "h", "i", RESET, FgOf(w_green), RESET, FLUSH>>

(* C6: while color is disabled an emission call appends no escape          *)
(* sequence, a tag step appends nothing and leaves TagState as it is, and  *)
(* no call made between emissions (ansi_set_fg and ansi_set_bg among them) *)
(* appends anything.                                                       *)
C6_DisabledIsPlain ==
  [][m_color_enabled = 0 =>
       /\ \A i \in 1..Len(NewOut) : ~IsEscape(NewOut[i])
       /\ TagStep => (NewOut = <<>> /\ m_tag_state' = m_tag_state /\ pos' = CurTok.pos)
       /\ pc = "idle" => NewOut = <<>>]_vars

(* [red]hi[/] went through with color off and a default foreground set *)
C6_Witness ==
  /\ pc = "flushed"
  /\ m_color_enabled = 0
  /\ str = Tag(w_red) \o w_hi \o CloseTag(<<>>)
  /\ m_default_fg = FgOf(w_green)
  /\ m_tag_state = TagState(NULL, NULL, 0)
  /\ capture_buf = <<"h", "i", FLUSH>>

(* what ansi_emit sends to the sink for s with color on, and with color off *)
Colored(s) == ansi_emit([Statics EXCEPT !.color_enabled = 1, !.out = <<>>], s).out
Plain(s)   == ansi_emit([Statics EXCEPT !.color_enabled = 0, !.out = <<>>], s).out

(* C7: the visible text does not depend on the color flag.  For every      *)
(* input the output with color on, escapes removed, is the output with     *)
(* color off, and the running call produced the one that its flag selects; *)
(* shortcodes and codepoints are replaced with color off as well.          *)
C7_TextIndependentOfColor ==
  pc = "flushed" =>
    /\ Strip(Colored(str)) = Plain(str)
    /\ capture_buf = IF m_color_enabled # 0 THEN Colored(str) ELSE Plain(str)
    /\ (str = Shortcode(w_fire) \o <<" ", "a", "l", "e", "r", "t">>) =>
         Plain(str) = <<"xF0", "x9F", "x94", "xA5", " ", "a", "l", "e", "r", "t", FLUSH>>
    /\ (str = Shortcode(w_U41)) => Plain(str) = <<"A", FLUSH>>

(* [rainbow]hi:fire:[/rainbow] emitted with color off *)
C7_Witness ==
  /\ pc = "flushed"
  /\ m_color_enabled = 0
  /\ str = Tag(w_rainbow) \o w_hi \o Shortcode(w_fire) \o CloseTag(w_rainbow)
  /\ capture_buf = <<"h", "i", "xF0", "x9F", "x94", "xA5", FLUSH>>
  /\ Len(Colored(str)) > Len(capture_buf)

(* ----------------------------------------------------------------------- *)
(* Properties of the enable state (SpecEnable)                             *)
(* ----------------------------------------------------------------------- *)

SetOrToggle == (\E v \in EnabledArgs : ansi_set_enabled(v)) \/ ansi_toggle

(* C8: ansi_enable() run with NO_COLOR set leaves color disabled and the   *)
(* lock set, and while the lock is set no ansi_set_enabled(v) and no       *)
(* ansi_toggle() changes what ansi_is_enabled() returns: it stays 0 over   *)
(* any sequence of the two calls.                                          *)
C8_LockedSettersNoEffect ==
  [][/\ (ansi_enable /\ no_color_env) => (m_color_enabled' = 0 /\ m_no_color_lock' = 1)
     /\ (m_no_color_lock # 0 /\ SetOrToggle) => m_color_enabled' = m_color_enabled]_vars

(* ansi_toggle() was called under the lock, with NO_COLOR still set *)
C8_Witness ==
  /\ last_call = "ansi_toggle"
  /\ m_no_color_lock = 1
  /\ no_color_env
  /\ ansi_is_enabled = 0

(* C9 as the specification states it: once ansi_enable() has observed      *)
(* NO_COLOR (the lock is set, and only ansi_init clears it), color is      *)
(* disabled whatever calls of ansi_enable, ansi_set_enabled and            *)
(* ansi_toggle follow and whatever the environment is by then.             *)
C9_LockKeepsColorOff == m_no_color_lock # 0 => ansi_is_enabled = 0

InitStep == \E fn \in InitArgs : ansi_init(fn[1], fn[2], "fmt_buf", FmtBufSize)

(* C10: ansi_init leaves the flag at 1, the lock clear and both function   *)
(* pointers callable; with the lock clear ansi_set_enabled(v) stores v and *)
(* ansi_toggle negates the flag; with the no-op putc (flush) installed no  *)
(* step sends a byte or escape (a flush) to the sink, and no call goes     *)
(* through a NULL pointer.                                                 *)
C10_InitResets ==
  [][/\ InitStep => /\ m_color_enabled' = 1 /\ m_no_color_lock' = 0
                    /\ m_putc_function' # NULL /\ m_flush_function' # NULL
     /\ \A v \in EnabledArgs :
          (m_no_color_lock = 0 /\ ansi_set_enabled(v)) => m_color_enabled' = v
     /\ (m_no_color_lock = 0 /\ ansi_toggle) =>
          m_color_enabled' = (IF m_color_enabled = 0 THEN 1 ELSE 0)
     /\ m_putc_function = "ansi_noop_putc" => \A i \in 1..Len(NewOut) : NewOut[i] = FLUSH
     /\ m_flush_function = "ansi_noop_flush" => \A i \in 1..Len(NewOut) : NewOut[i] # FLUSH
     /\ ~fault']_vars

(* after ansi_init(NULL, capture_flush) a call of ansi_puts has run to    *)
(* its flush: only the flush reached the sink                             *)
C10_Witness ==
  /\ pc = "flushed"
  /\ last_call = "ansi_puts"
  /\ m_putc_function = "ansi_noop_putc"
  /\ m_flush_function = "capture_flush"
  /\ m_color_enabled = 1
  /\ m_no_color_lock = 0
  /\ capture_buf = <<FLUSH>>
  /\ ~fault

(* C11 as the specification states it: after two consecutive ansi_toggle() *)
(* calls ansi_is_enabled() returns the value it returned before them, for  *)
(* every value the flag can hold.  Stated on the first of the two calls:   *)
(* the value the second call stores is the value before the first.         *)
C11_ToggleTwiceSameValue ==
  [][ansi_toggle =>
       toggle_result(m_no_color_lock', m_color_enabled') = m_color_enabled]_vars

(* C11, amended: two consecutive ansi_toggle() calls restore whether       *)
(* ansi_is_enabled() is zero or non-zero, and restore the value itself     *)
(* when it was 0 or 1 or when the NO_COLOR lock is set.                    *)
C11_ToggleTwiceSameTruth ==
  [][ansi_toggle =>
       LET twice == toggle_result(m_no_color_lock', m_color_enabled') IN
       /\ (twice = 0) <=> (m_color_enabled = 0)
       /\ (m_color_enabled \in {0, 1} \/ m_no_color_lock # 0) => twice = m_color_enabled]_vars

(* ansi_toggle() has turned a flag off with the lock clear; a second call  *)
(* would store 1                                                           *)
C11_Witness ==
  /\ last_call = "ansi_toggle"
  /\ m_no_color_lock = 0
  /\ ansi_is_enabled = 0
  /\ toggle_result(m_no_color_lock, m_color_enabled) = 1

(* ----------------------------------------------------------------------- *)
(* Specification: plain text, escape pairs, shortcodes and malformed       *)
(* markup through ansi_puts                                                *)
(* ----------------------------------------------------------------------- *)

MaxUnits == 3

(* the digits, for writing numbers into inputs and reading them back *)
HexUpper == <<"0", "1", "2", "3", "4", "5", "6", "7", "8", "9", "A", "B", "C", "D", "E", "F">>
HexLower == <<"0", "1", "2", "3", "4", "5", "6", "7", "8", "9", "a", "b", "c", "d", "e", "f">>

(* every concatenation of at most n of the units *)
RECURSIVE UnitTexts(_, _)
UnitTexts(units, n) ==
  IF n = 0 THEN {<<>>}
  ELSE {<<>>} \cup {u \o t : u \in units, t \in UnitTexts(units, n - 1)}

(* plain characters (one of them two bytes long) and the three escape pairs *)
EscUnits ==
  { <<"a">>, <<"xC3", "xA9">>, <<"[", "[">>, <<"]", "]">>, <<":", ":">> }

EscapeTexts ==
  UnitTexts(EscUnits, MaxUnits)
  \cup { <<"[", "[", "h", "e", "l", "l", "o", "]", "]">>,
         <<"t", "i", "m", "e", ":", ":", "1", "2", ":", ":", "3", "0">> }

(* brackets and colons that open nothing, next to names known and unknown *)
w_bee == <<"b", "e", "e">>

MalUnits == { <<"[">>, <<":">>, <<"a">>, <<"xA9">>, w_bee, w_U41 }

MalformedTexts ==
  UnitTexts(MalUnits, MaxUnits)
  \cup { <<"[", "b", "r", "o", "k", "e", "n">>,
         <<":", "n", "o", "s", "u", "c", "h", ":", " ", "x">>,
         <<":", "f", "i", "r", "e">>,
         Shortcode(<<"U", "-", "Z", "Z", "Z", "Z">>),
         Shortcode(<<"U", "-", "1", "1", "0", "0", "0", "0">>),
         Shortcode(<<"U", "-", "0">>),
         Shortcode(<<"U", "-">>),
         Shortcode(<<"U", "-", "D", "8", "0", "0">>),
         Shortcode(<<"U", "-", "1", "2", "3", "4", "5", "6", "7">>) }

(* words of an open tag that emit_tag recognizes, and words it does not *)
w_nosuch == <<"n", "o", "s", "u", "c", "h">>
KnownWords == { w_red, w_bold, w_fg \o w_208 }
UnkWords   == { w_nosuch, w_fg \o <<"a", "b", "c">>, w_fg \o <<"-">>, w_fg }
UnkBgs     == { w_nosuch, w_bg \o <<"x">>, w_bg }

(* tag contents of unknown words only, and of a known word next to them *)
UnkBodies ==
  UnkWords \cup {u \o w_sp \o v : u \in UnkWords, v \in UnkWords}
  \cup {u \o w_on \o b : u \in UnkWords, b \in UnkBgs}
MixedBodies ==
  {u \o w_sp \o k : u \in UnkWords, k \in KnownWords}
  \cup {k \o w_sp \o u : u \in UnkWords, k \in KnownWords}
  \cup {k \o w_on \o b : k \in KnownWords, b \in UnkBgs}
  \cup {u \o w_on \o w_blue : u \in UnkWords}

TagPrefixes == { <<>>, Tag(w_italic \o w_sp \o w_cyan \o w_on \o w_green) \o <<"a">> }

UnknownWordTexts ==
  {p \o Tag(b) \o w_hi : p \in TagPrefixes, b \in UnkBodies \cup MixedBodies \cup KnownWords}

(* the decimal text of an integer *)
RECURSIVE DecNat(_)
DecNat(n) ==
  IF n < 10 THEN <<HexUpper[n + 1]>>
  ELSE DecNat(n \div 10) \o <<HexUpper[(n % 10) + 1]>>
Dec(n) == IF n < 0 THEN <<"-">> \o DecNat(-n) ELSE DecNat(n)

(* colour indices around 0 and around 255, and two far outside *)
NumSpan == 3
NumArgs ==
  (-NumSpan..NumSpan) \cup ((255 - NumSpan)..(255 + NumSpan)) \cup {-5, 17, 208, 999, -70000}

FgNumText(n) == Tag(w_fg \o Dec(n)) \o w_hi
BgNumText(n) == Tag(w_red \o w_on \o w_bg \o Dec(n)) \o w_hi
(* 2^32 + 5 written out, and a signed and a zero-padded index *)
w_big == <<"4", "2", "9", "4", "9", "6", "7", "3", "0", "1">>
NumTexts ==
  {FgNumText(n) : n \in NumArgs} \cup {BgNumText(n) : n \in NumArgs}
  \cup { Tag(w_fg \o w_big) \o w_hi, Tag(w_fg \o <<"+", "7">>) \o w_hi,
         Tag(w_fg \o <<"0", "0", "7">>) \o w_hi }

(* what stands between U- and the closing colon: digit strings at the     *)
(* boundaries of the encoding and of the valid range, bad digits, bad      *)
(* lengths                                                                 *)
HexArgs ==
  { <<"1">>, <<"4", "1">>, <<"7", "F">>,
    <<"8", "0">>, <<"7", "F", "F">>, <<"8", "0", "0">>,
    <<"F", "F", "F", "F">>, <<"1", "0", "0", "0", "0">>, <<"1", "0", "F", "F", "F", "F">>,
    <<"1", "1", "0", "0", "0", "0">>, <<"D", "7", "F", "F">>, <<"D", "8", "0", "0">>,
    <<"D", "F", "F", "F">>, <<"E", "0", "0", "0">>, <<"e", "9">>,
    <<"1", "f", "5", "2", "5">>, <<"1", "F", "5", "2", "5">>, <<"0", "0", "0", "0", "4", "1">>,
    <<"0", "0", "0", "0", "0", "4", "1">>, <<"0">>, <<"0", "0">>,
    <<"G", "1">>, <<"4", "g">>, <<"F", "F", "F", "F", "F", "F">>,
    <<"2", "7", "1", "4">>, <<"A", "9">>, <<"-", "1">>,
    <<"+", "4", "1">>, <<>> }

w_U == <<"U", "-">>
w_ok == <<" ", "o", "k">>
CodepointTexts ==
  {Shortcode(w_U \o h) : h \in HexArgs}
  \cup {<<"a">> \o Shortcode(w_U \o h) \o w_ok : h \in HexArgs}

(* every shortcode of the table as it is, in capitals, and capitalised *)
Capitalised(s) == <<toupper(s[1])>> \o Tail(s)
CaseTexts ==
  {Shortcode(EMOJIS[i].name) : i \in 1..Len(EMOJIS)}
  \cup {Shortcode(ToUpper(EMOJIS[i].name)) : i \in 1..Len(EMOJIS)}
  \cup {Shortcode(Capitalised(EMOJIS[i].name)) : i \in 1..Len(EMOJIS)}

TextInputs ==
  EscapeTexts \cup MalformedTexts \cup UnknownWordTexts \cup CodepointTexts \cup CaseTexts

NextText ==
  \/ \E v \in {0, 1} : ansi_set_enabled(v) /\ UNCHANGED <<last_call, bar, thr, tui>>
  \/ \E s \in TextInputs : ansi_puts(s) /\ UNCHANGED <<last_call, bar, thr, tui>>
  \/ ansi_emit_step /\ UNCHANGED <<last_call, bar, thr, tui>>
  \/ ansi_emit_return /\ UNCHANGED <<last_call, bar, thr, tui>>
  \/ capture_reset /\ UNCHANGED <<last_call, bar, thr, tui>>

SpecText == Init /\ [][NextText]_vars

(* ----------------------------------------------------------------------- *)
(* Specification: numeric colours, whose escapes live in the static        *)
(* buffers m_num_fg and m_num_bg from one call to the next                 *)
(* ----------------------------------------------------------------------- *)

NextNum ==
  \/ \E s \in NumTexts : ansi_puts(s) /\ UNCHANGED <<last_call, bar, thr, tui>>
  \/ ansi_emit_step /\ UNCHANGED <<last_call, bar, thr, tui>>
  \/ ansi_emit_return /\ UNCHANGED <<last_call, bar, thr, tui>>
  \/ capture_reset /\ UNCHANGED <<last_call, bar, thr, tui>>

SpecNum == Init /\ [][NextNum]_vars

(* a finished call with color disabled *)
PlainDone == pc = "flushed" /\ m_color_enabled = 0

(* s with every pair [[, ]] and :: replaced by one [, ] or : *)
RECURSIVE Collapse(_)
Collapse(s) ==
  IF s = <<>> THEN <<>>
  ELSE IF Len(s) >= 2 /\ s[1] = s[2] /\ s[1] \in {"[", "]", ":"}
       THEN <<s[1]>> \o Collapse(SubSeq(s, 3, Len(s)))
       ELSE <<s[1]>> \o Collapse(Tail(s))

(* C12: with color disabled, a text made only of plain characters and the  *)
(* escape pairs [[, ]] and :: comes out as the same text with each pair    *)
(* collapsed to its single character.                                      *)
C12_EscapePairsCollapse ==
  (PlainDone /\ str \in EscapeTexts) =>
    /\ capture_buf = Collapse(str) \o <<FLUSH>>
    /\ (str = <<"[", "[", "h", "e", "l", "l", "o", "]", "]">>) =>
         capture_buf = <<"[", "h", "e", "l", "l", "o", "]", FLUSH>>

(* [[ then e-acute then :: went through with color off *)
C12_Witness ==
  /\ PlainDone
  /\ str = <<"[", "[", "xC3", "xA9", ":", ":">>
  /\ capture_buf = <<"[", "xC3", "xA9", ":", FLUSH>>

(* the value of a hexadecimal digit of either case, of a string of them,   *)
(* -1 if a character is not one                                            *)
HexDigit(c) ==
  IF \E k \in 1..16 : HexUpper[k] = c \/ HexLower[k] = c
  THEN (CHOOSE k \in 1..16 : HexUpper[k] = c \/ HexLower[k] = c) - 1
  ELSE -1

RECURSIVE HexValue(_)
HexValue(h) ==
  IF h = <<>> THEN 0
  ELSE LET hi == HexValue(SubSeq(h, 1, Len(h) - 1))
           d  == HexDigit(h[Len(h)])
       IN IF hi < 0 \/ d < 0 THEN -1 ELSE hi * 16 + d

(* h is one to six hexadecimal digits naming a Unicode scalar value but 0 *)
ValidCodepoint(h) ==
  /\ Len(h) \in 1..6
  /\ HexValue(h) \in 1..1114111
  /\ HexValue(h) \notin 55296..57343

EmojiNames == {EMOJIS[i].name : i \in 1..Len(EMOJIS)}

(* name, between two colons, is a known shortcode or U- and a valid codepoint *)
Resolvable(name) ==
  \/ name \in EmojiNames
  \/ /\ Len(name) >= 2 /\ name[1] = "U" /\ name[2] = "-"
     /\ ValidCodepoint(SubSeq(name, 3, Len(name)))

(* s holds no ], no pair [[ or ::, and no :name: span that resolves *)
Malformed(s) ==
  /\ \A i \in 1..Len(s) : s[i] # "]"
  /\ \A i \in 1..Len(s) - 1 : ~(s[i] = s[i + 1] /\ s[i] \in {"[", ":"})
  /\ \A i \in 1..Len(s) : \A j \in i + 2..Len(s) :
       (s[i] = ":" /\ s[j] = ":") => ~Resolvable(SubSeq(s, i + 1, j - 1))

(* C13: malformed markup degrades to literal text.  With color disabled, a *)
(* text with no ], no pair [[ or ::, and no :name: span naming a known     *)
(* emoji or a valid codepoint comes out byte for byte: an unterminated [,  *)
(* an unterminated : and an unknown :name: are written as they are.        *)
C13_MalformedIsLiteral ==
  (PlainDone /\ Malformed(str)) => capture_buf = str \o <<FLUSH>>

(* the unknown shortcode :nosuch: went through with color off *)
C13_Witness ==
  /\ PlainDone
  /\ Malformed(str)
  /\ str = <<":", "n", "o", "s", "u", "c", "h", ":", " ", "x">>
  /\ capture_buf = str \o <<FLUSH>>

(* C14: a word of an open tag that is neither an attribute name nor a     *)
(* numeric fg:/bg: form with a digit is ignored.  A tag of such words      *)
(* only writes nothing and leaves TagState as it is, the tag is consumed   *)
(* and the text after it is written unchanged; next to a recognized word   *)
(* the tag does what it does without the unknown word.                      *)
C14_UnknownWordIgnored ==
  /\ [][(TagStep /\ m_color_enabled # 0 /\ CurTag \in UnkBodies) =>
          /\ NewOut = <<>>
          /\ m_tag_state' = m_tag_state
          /\ pos' = CurTok.pos]_vars
  /\ [](pc = "flushed" /\ m_color_enabled # 0 =>
          /\ (str \in {Tag(b) \o w_hi : b \in UnkBodies}) =>
               capture_buf = <<"h", "i", FLUSH>>
          /\ \A p \in TagPrefixes : \A k \in KnownWords :
               /\ \A u \in UnkWords :
                    str \in { p \o Tag(u \o w_sp \o k) \o w_hi,
                              p \o Tag(k \o w_sp \o u) \o w_hi } =>
                      capture_buf = Colored(p \o Tag(k) \o w_hi)
               /\ \A b \in UnkBgs :
                    str = p \o Tag(k \o w_on \o b) \o w_hi =>
                      capture_buf = Colored(p \o Tag(k) \o w_hi))

(* [italic cyan on green]a[nosuch bold]hi: bold took effect after nosuch *)
C14_Witness ==
  /\ pc = "flushed"
  /\ m_color_enabled # 0
  /\ str = Tag(w_italic \o w_sp \o w_cyan \o w_on \o w_green) \o <<"a">>
           \o Tag(w_nosuch \o w_sp \o w_bold) \o w_hi
  /\ capture_buf = <<ITALIC, "ESC[36m", "ESC[42m", "a", BOLD, "h", "i", RESET, FLUSH>>

(* the 256-colour escapes for index n clamped into 0..255 *)
Clamped(n) == IF n < 0 THEN 0 ELSE IF n > 255 THEN 255 ELSE n
Fg256Esc(n) == "ESC[38;5;" \o ToString(Clamped(n)) \o "m"
Bg256Esc(n) == "ESC[48;5;" \o ToString(Clamped(n)) \o "m"

(* C15: for every integer n the open word fg:n makes the 256-colour        *)
(* foreground of index min(255, max(0, n)) the active foreground and       *)
(* writes its escape, and bg:n after on does the same for the background:  *)
(* fg:999 gives index 255 and fg:-5 gives index 0.                         *)
C15_NumericColorClamped ==
  (pc = "flushed" /\ m_color_enabled # 0) =>
    /\ \A n \in NumArgs :
         /\ str = FgNumText(n) =>
              /\ capture_buf = <<Fg256Esc(n), "h", "i", RESET, FLUSH>>
              /\ Deref(Statics, m_tag_state.fg_code) = Fg256Esc(n)
              /\ m_tag_state.bg_code = NULL
         /\ str = BgNumText(n) =>
              /\ capture_buf = <<FgOf(w_red), Bg256Esc(n), "h", "i", RESET, FLUSH>>
              /\ Deref(Statics, m_tag_state.bg_code) = Bg256Esc(n)
              /\ m_tag_state.fg_code = FgOf(w_red)
    /\ str = FgNumText(999) => capture_buf[1] = "ESC[38;5;255m"
    /\ str = FgNumText(-5) => capture_buf[1] = "ESC[38;5;0m"
    /\ str = Tag(w_fg \o w_big) \o w_hi => capture_buf[1] = "ESC[38;5;255m"
    /\ str = Tag(w_fg \o <<"+", "7">>) \o w_hi => capture_buf[1] = "ESC[38;5;7m"
    /\ str = Tag(w_fg \o <<"0", "0", "7">>) \o w_hi => capture_buf[1] = "ESC[38;5;7m"

(* [red on bg:256]hi was emitted: the background index is 255 *)
C15_Witness ==
  /\ pc = "flushed"
  /\ m_color_enabled # 0
  /\ str = BgNumText(256)
  /\ capture_buf = <<"ESC[31m", "ESC[48;5;255m", "h", "i", RESET, FLUSH>>

(* the standard UTF-8 encoding of the scalar value v *)
Utf8(v) ==
  IF v <= 127 THEN <<Chr(v)>>
  ELSE IF v <= 2047 THEN <<Chr(192 + (v \div 64)), Chr(128 + (v % 64))>>
  ELSE IF v <= 65535 THEN
    <<Chr(224 + (v \div 4096)), Chr(128 + ((v \div 64) % 64)), Chr(128 + (v % 64))>>
  ELSE <<Chr(240 + (v \div 262144)), Chr(128 + ((v \div 4096) % 64)),
         Chr(128 + ((v \div 64) % 64)), Chr(128 + (v % 64))>>

(* what :U-h: stands for in the output *)
CodepointOut(h) ==
  IF ValidCodepoint(h) THEN Utf8(HexValue(h)) ELSE Shortcode(w_U \o h)

(* C16: a span :U-h: read by the tokenizer is resolved iff h is one to six *)
(* hexadecimal digits of either case whose value v is in 1..0x10FFFF and   *)
(* is no surrogate; the bytes written are then the UTF-8 encoding of v, of *)
(* 1, 2, 3 or 4 bytes by the boundaries 0x7F, 0x7FF and 0xFFFF; in every   *)
(* other case the span is written as it stands.  The span is alone or      *)
(* between plain text, with color on or off.                               *)
C16_CodepointEscape ==
  pc = "flushed" =>
    /\ \A h \in HexArgs :
         /\ str = Shortcode(w_U \o h) => capture_buf = CodepointOut(h) \o <<FLUSH>>
         /\ str = <<"a">> \o Shortcode(w_U \o h) \o w_ok =>
              capture_buf = <<"a">> \o CodepointOut(h) \o w_ok \o <<FLUSH>>
    /\ str = Shortcode(w_U \o <<"2", "7", "1", "4">>) =>
         capture_buf = <<"xE2", "x9C", "x94", FLUSH>>
    /\ str = Shortcode(w_U \o <<"1", "f", "5", "2", "5">>) =>
         capture_buf = <<"xF0", "x9F", "x94", "xA5", FLUSH>>
    /\ str = Shortcode(w_U \o <<"A", "9">>) => capture_buf = <<"xC2", "xA9", FLUSH>>
    /\ str = Shortcode(w_U \o <<"D", "8", "0", "0">>) =>
         capture_buf = <<":", "U", "-", "D", "8", "0", "0", ":", FLUSH>>

(* :U-10FFFF: came out as the four bytes F4 8F BF BF *)
C16_Witness ==
  /\ pc = "flushed"
  /\ str = Shortcode(w_U \o <<"1", "0", "F", "F", "F", "F">>)
  /\ capture_buf = <<"xF4", "x8F", "xBF", "xBF", FLUSH>>

(* the name between the colons of the running input; the bytes of the     *)
(* table entry of a name                                                   *)
Inner == SubSeq(str, 2, Len(str) - 1)
EmojiBytes(name) == EMOJIS[CHOOSE i \in 1..Len(EMOJIS) : EMOJIS[i].name = name].utf8

(* C17 as the specification states it: shortcode lookup ignores the case   *)
(* of ASCII letters; for every table name, :name: in any mix of upper and  *)
(* lower case is replaced by the bytes of the lower-case name.             *)
C17_ShortcodeAnyCase ==
  (pc = "flushed" /\ str \in CaseTexts) =>
    capture_buf = EmojiBytes(ToLower(Inner)) \o <<FLUSH>>

(* C17, amended: shortcode lookup is an exact, case-sensitive match.  For  *)
(* every table name, :name: as the table spells it is replaced by the      *)
(* entry's bytes, and :name: with its letters in capitals, or its first    *)
(* letter only, is not replaced: it is written as it stands.               *)
C17_ShortcodeExactCase ==
  (pc = "flushed" /\ str \in CaseTexts) =>
    capture_buf = (IF Inner \in EmojiNames THEN EmojiBytes(Inner) ELSE str) \o <<FLUSH>>

(* :FIRE: was written as it stands *)
C17_Witness ==
  /\ pc = "flushed"
  /\ str = Shortcode(ToUpper(w_fire))
  /\ Inner \notin EmojiNames
  /\ capture_buf = <<":", "F", "I", "R", "E", ":", FLUSH>>

(* ----------------------------------------------------------------------- *)
(* Specification: gradient and rainbow spans                               *)
(* ----------------------------------------------------------------------- *)

(* the units of a span: a character, a space, a shortcode, an escape pair; *)
(* every sequence of at most n of them                                     *)
SpanUnits == { <<"a">>, <<" ">>, Shortcode(w_fire), <<"[", "[">> }
UnitSeqs(n) == UNION {[1..k -> SpanUnits] : k \in 0..n}

RECURSIVE Flat(_)
Flat(us) == IF us = <<>> THEN <<>> ELSE Head(us) \o Flat(Tail(us))

GradPairs == { <<w_red, w_blue>>, <<w_blue, w_red>> }
GradText(c, us) ==
  Tag(w_gradient \o w_sp \o c[1] \o w_sp \o c[2]) \o Flat(us) \o CloseTag(w_gradient)
GradTexts == {GradText(c, us) : c \in GradPairs, us \in UnitSeqs(MaxUnits)}

(* one rainbow span, and two of them in one text *)
RainClosers == { CloseTag(w_rainbow), CloseTag(<<>>) }
RainSpan(us, cl) == Tag(w_rainbow) \o Flat(us) \o cl
RainBodies == { <<<<"a">>, <<"a">>>>, <<<<"a">>, Shortcode(w_fire), <<"a">>>> }
RainTexts ==
  {RainSpan(us, cl) : us \in UnitSeqs(MaxUnits), cl \in RainClosers}
  \cup {RainSpan(u1, c1) \o RainSpan(u2, c2) :
          u1 \in RainBodies, u2 \in RainBodies, c1 \in RainClosers, c2 \in RainClosers}

EffectTexts == GradTexts \cup RainTexts

NextEffect ==
  \/ \E s \in EffectTexts : ansi_puts(s) /\ UNCHANGED <<last_call, bar, thr, tui>>
  \/ ansi_emit_step /\ UNCHANGED <<last_call, bar, thr, tui>>
  \/ ansi_emit_return /\ UNCHANGED <<last_call, bar, thr, tui>>
  \/ capture_reset /\ UNCHANGED <<last_call, bar, thr, tui>>

SpecEffect == Init /\ [][NextEffect]_vars

(* a unit counts towards the length of its span; it is given a colour of   *)
(* its own; the bytes it is written as                                     *)
Counted(u) == u # <<" ">>
Painted(u) == u \notin {<<" ">>, <<"[", "[">>}
Shown(u) ==
  IF u = Shortcode(w_fire) THEN EmojiBytes(w_fire)
  ELSE IF u = <<"[", "[">> THEN <<"[">> ELSE u
SpanLen(us) == Cardinality({k \in 1..Len(us) : Counted(us[k])})
PaintedBefore(us, k) == Cardinality({j \in 1..k - 1 : Painted(us[j])})

(* a / b truncated towards zero *)
Trunc(a, b) == IF a >= 0 THEN a \div b ELSE -((-a) \div b)

RgbOf(w) == ATTRS[CHOOSE i \in 1..Len(ATTRS) : ATTRS[i].name = w].rgb
RgbEsc(t) ==
  "ESC[38;2;" \o ToString(t[1]) \o ";" \o ToString(t[2]) \o ";" \o ToString(t[3]) \o "m"
(* the colour at index i of a gradient from rgb a to rgb b with divisor n *)
Mix(a, b, i, n) == [ch \in 1..3 |-> a[ch] + Trunc((b[ch] - a[ch]) * i, n)]

(* units k.. of a gradient span as they are written with divisor n *)
RECURSIVE GradOut(_, _, _, _)
GradOut(c, us, k, n) ==
  IF k > Len(us) THEN <<>>
  ELSE (IF Painted(us[k])
        THEN <<RgbEsc(Mix(RgbOf(c[1]), RgbOf(c[2]), PaintedBefore(us, k), n))>>
        ELSE <<>>)
       \o Shown(us[k]) \o GradOut(c, us, k + 1, n)

(* the true-colour escapes of the output, in order *)
ColorEscapes == SelectSeq(capture_buf, LAMBDA e : IsEscape(e) /\ e # RESET)

(* every unit that counts towards the span length is given a colour *)
AllPainted(us) == \A k \in 1..Len(us) : Counted(us[k]) => Painted(us[k])

(* C18 as the specification states it: in a [gradient c1 c2] span of N     *)
(* visible units, for every N >= 1, the unit at index 0 is given exactly   *)
(* the rgb of c1 and the unit at index N-1 exactly the rgb of c2.          *)
C18_GradientEndsEveryN ==
  pc = "flushed" =>
    \A c \in GradPairs : \A us \in UnitSeqs(MaxUnits) :
      (str = GradText(c, us) /\ SpanLen(us) >= 1 /\ AllPainted(us)) =>
        /\ ColorEscapes # <<>>
        /\ ColorEscapes[1] = RgbEsc(RgbOf(c[1]))
        /\ ColorEscapes[Len(ColorEscapes)] = RgbEsc(RgbOf(c[2]))

(* C18, amended: in a [gradient c1 c2] span of length N the i-th unit to   *)
(* be given a colour (i from 0) gets, per channel, start + (end - start) * *)
(* i / max(N-1, 1), truncated towards zero.  For N >= 2 the unit at index  *)
(* 0 gets exactly the rgb of c1 and the unit at index N-1 exactly the rgb  *)
(* of c2; for N = 1 the only unit gets the rgb of c1.                      *)
C18_GradientInterpolation ==
  pc = "flushed" =>
    \A c \in GradPairs : \A us \in UnitSeqs(MaxUnits) :
      str = GradText(c, us) =>
        LET N == SpanLen(us)
            n == IF N > 1 THEN N - 1 ELSE 1
        IN /\ capture_buf = GradOut(c, us, 1, n) \o <<RESET, FLUSH>>
           /\ (N >= 2 /\ AllPainted(us)) =>
                /\ ColorEscapes[1] = RgbEsc(RgbOf(c[1]))
                /\ ColorEscapes[Len(ColorEscapes)] = RgbEsc(RgbOf(c[2]))
           /\ (N = 1 /\ AllPainted(us)) => ColorEscapes = <<RgbEsc(RgbOf(c[1]))>>

(* [gradient red blue]a:fire:a[/gradient]: red, the midpoint truncated     *)
(* towards zero, blue                                                      *)
C18_Witness ==
  /\ pc = "flushed"
  /\ str = GradText(<<w_red, w_blue>>, <<<<"a">>, Shortcode(w_fire), <<"a">>>>)
  /\ capture_buf = <<"ESC[38;2;255;0;0m", "a",
                     "ESC[38;2;128;0;127m", "xF0", "x9F", "x94", "xA5",
                     "ESC[38;2;0;0;255m", "a", RESET, FLUSH>>


(* the escape of palette entry floor(i * 20 / (N - 1)) *)
PaletteEsc(i, N) ==
  "ESC[38;5;" \o ToString(RAINBOW[((i * (RAINBOW_LEN - 1)) \div (N - 1)) + 1]) \o "m"

(* units k.. of a rainbow span of N units as the claim has them written *)
RECURSIVE RainOut(_, _, _)
RainOut(us, k, N) ==
  IF k > Len(us) THEN <<>>
  ELSE (IF Painted(us[k]) THEN <<PaletteEsc(PaintedBefore(us, k), N)>> ELSE <<>>)
       \o Shown(us[k]) \o RainOut(us, k + 1, N)

(* a span of at least two units, each of them given a colour *)
RainCase(us) == SpanLen(us) >= 2 /\ AllPainted(us)

(* C19: in every [rainbow] span of N visible units within one call, a      *)
(* second span opened after the first was closed with [/rainbow] or [/]    *)
(* included, the unit at index i is given palette entry                    *)
(* floor(i * 20 / (N-1)) of the 21 entries: the first unit of the span the *)
(* first entry, the last unit the last entry.  Taken for spans of two or   *)
(* more units.                                                             *)
C19_RainbowEverySpan ==
  pc = "flushed" =>
    /\ \A us \in UnitSeqs(MaxUnits) : \A cl \in RainClosers :
         (str = RainSpan(us, cl) /\ RainCase(us)) =>
           capture_buf = RainOut(us, 1, SpanLen(us)) \o <<RESET, FLUSH>>
    /\ \A u1 \in RainBodies : \A u2 \in RainBodies :
         \A c1 \in RainClosers : \A c2 \in RainClosers :
           str = RainSpan(u1, c1) \o RainSpan(u2, c2) =>
             capture_buf = RainOut(u1, 1, SpanLen(u1)) \o <<RESET>>
                           \o RainOut(u2, 1, SpanLen(u2)) \o <<RESET, FLUSH>>

(* the same for the texts in which no span follows a [/] *)
RainbowAfterNamedClose ==
  pc = "flushed" =>
    /\ \A us \in UnitSeqs(MaxUnits) : \A cl \in RainClosers :
         (str = RainSpan(us, cl) /\ RainCase(us)) =>
           capture_buf = RainOut(us, 1, SpanLen(us)) \o <<RESET, FLUSH>>
    /\ \A u1 \in RainBodies : \A u2 \in RainBodies : \A c2 \in RainClosers :
         str = RainSpan(u1, CloseTag(w_rainbow)) \o RainSpan(u2, c2) =>
           capture_buf = RainOut(u1, 1, SpanLen(u1)) \o <<RESET>>
                         \o RainOut(u2, 1, SpanLen(u2)) \o <<RESET, FLUSH>>

(* ----------------------------------------------------------------------- *)
(* Specification: ansi_bar on the buffers of the tests                     *)
(* ----------------------------------------------------------------------- *)

MaxWidth == 4

BarValues == {Double(v) : v \in {-50, 0, 1, 8, 30, 50, 99, 200}} \cup {NaN}
BarRanges ==
  {<<Double(r[1]), Double(r[2])>> :
     r \in {<<0, 100>>, <<0, 16>>, <<5, 5>>, <<100, 0>>, <<-100, 100>>}}
BarColors == { NullStr, w_red, w_nosuch }
BarTracks == { 1, 4, 9 }
BarBufs   == { <<"buf", 128>>, <<"buf", 16>>, <<"buf", 1>>, <<NULL, 0>> }

NextBar ==
  \/ \E b \in BarBufs : \E c \in BarColors : \E w \in 0..MaxWidth : \E t \in BarTracks :
       \E v \in BarValues : \E r \in BarRanges :
         ansi_bar(b[1], b[2], c, w, t, v, r[1], r[2])
  \/ bar_release

SpecBar == Init /\ [][NextBar]_vars

(* the arguments of the call made on the buffer *)
BarSize  == bar.args[2]
BarWidth == bar.args[4]
BarTrack == bar.args[5]
BarValue == bar.args[6]
BarMin   == bar.args[7]
BarMax   == bar.args[8]

(* the buffer without the bytes of the colour tags; the number of glyphs   *)
(* in it (bytes that are no UTF-8 continuation bytes)                      *)
TagBytes == {"[", "]", "/"} \cup {LowerAlpha[k] : k \in 1..26}
BarCells == SelectSeq(bar.buf, LAMBDA c : c \notin TagBytes)
CellCount == Len(SelectSeq(BarCells, LAMBDA c : c \in {" ", "xC2", "xE2"}))

(* the call was made with room for every cell and both tags, width >= 1 *)
BarRoomy == bar.ret = "buf" /\ BarSize = 128 /\ BarWidth >= 1

(* (value - min) / (max - min) clamped into 0..1, 1 when max = min, as     *)
(* numerator and positive denominator; e = round(fraction * width * 8)     *)
BarFrac ==
  LET num == IF BarMax.n > BarMin.n THEN BarValue.n - BarMin.n ELSE BarMin.n - BarValue.n
      den == IF BarMax.n > BarMin.n THEN BarMax.n - BarMin.n ELSE BarMin.n - BarMax.n
  IN IF den = 0 THEN <<1, 1>>
     ELSE IF num < 0 THEN <<0, 1>>
     ELSE IF num > den THEN <<1, 1>>
     ELSE <<num, den>>
BarE == (2 * BarFrac[1] * BarWidth * 8 + BarFrac[2]) \div (2 * BarFrac[2])

Rep(g, n) == Flat([i \in 1..n |-> g])
FullBlock == <<"xE2", "x96", "x88">>
PartBlock(k) == <<"xE2", "x96", Chr(144 - k)>>
TrackGlyph == IF BarTrack = 1 THEN <<"xE2", "x96", "x91">>
              ELSE IF BarTrack = 4 THEN <<"xC2", "xB7">> ELSE <<" ">>

(* floor(e/8) full blocks, a partial block of e mod 8 eighths if that is   *)
(* not 0, width - ceil(e/8) track glyphs                                   *)
BarLayout ==
  Rep(FullBlock, BarE \div 8)
  \o (IF BarE % 8 # 0 THEN PartBlock(BarE % 8) ELSE <<>>)
  \o Rep(TrackGlyph, BarWidth - ((BarE + 7) \div 8))

(* C20: for every width >= 1 and every value, min and max, given enough    *)
(* capacity, ansi_bar writes exactly width cells: with the fraction        *)
(* (value-min)/(max-min) clamped into [0,1] (1 when max = min) and         *)
(* e = round(fraction * width * 8), floor(e/8) full blocks, one partial    *)
(* block of e mod 8 eighths if that is not 0, and width - ceil(e/8) track  *)
(* glyphs; 50 in 0..100 at width 4 gives two full blocks and two track     *)
(* glyphs.                                                                 *)
C20_BarCells ==
  BarRoomy =>
    /\ CellCount = BarWidth
    /\ ~BarValue.nan => BarCells = BarLayout
    /\ (BarValue = Double(50) /\ BarMin = Double(0) /\ BarMax = Double(100)
        /\ BarWidth = 4 /\ BarTrack = 1) =>
         BarCells = FullBlock \o FullBlock \o <<"xE2", "x96", "x91", "xE2", "x96", "x91">>

(* the same for the calls whose value is a number *)
BarCellsOfNumbers ==
  (BarRoomy /\ ~BarValue.nan) =>
    /\ CellCount = BarWidth
    /\ BarCells = BarLayout
    /\ (BarValue = Double(50) /\ BarMin = Double(0) /\ BarMax = Double(100)
        /\ BarWidth = 4 /\ BarTrack = 1) =>
         BarCells = FullBlock \o FullBlock \o <<"xE2", "x96", "x91", "xE2", "x96", "x91">>

(* ----------------------------------------------------------------------- *)
(* Specification: ansi_bar on buffers of every small capacity              *)
(* ----------------------------------------------------------------------- *)

MaxCap == 18

TightValues == { Double(0), Double(40), Double(100), NaN }
TightColors == { NullStr, w_red, w_nosuch, w_bold, w_rainbow }
TightTracks == { 0, 1, 4 }

NextTight ==
  \/ \E n \in 1..MaxCap : \E c \in TightColors : \E w \in 0..MaxWidth :
       \E t \in TightTracks : \E v \in TightValues :
         ansi_bar("buf", n, c, w, t, v, Double(0), Double(100))
  \/ bar_release

SpecTight == Init /\ [][NextTight]_vars

(* the glyphs of the two tables *)
BarGlyphs == {m_bar_block[k] : k \in 1..8} \cup {m_bar_track[k].s : k \in 1..6}

(* s is a sequence of whole glyphs *)
RECURSIVE WholeGlyphs(_)
WholeGlyphs(s) ==
  \/ s = <<>>
  \/ \E g \in BarGlyphs :
       /\ Len(g) <= Len(s)
       /\ SubSeq(s, 1, Len(g)) = g
       /\ WholeGlyphs(SubSeq(s, Len(g) + 1, Len(s)))

(* s is [color], whole glyphs, [/color], whole glyphs: both tags complete *)
BothTags(s, color) ==
  LET o == Tag(color)
      c == CloseTag(color)
  IN \E i \in Len(o)..(Len(s) - Len(c)) :
       /\ SubSeq(s, 1, Len(o)) = o
       /\ WholeGlyphs(SubSeq(s, Len(o) + 1, i))
       /\ SubSeq(s, i + 1, i + Len(c)) = c
       /\ WholeGlyphs(SubSeq(s, i + Len(c) + 1, Len(s)))

(* C21: for every capacity >= 1, every width, track and color name,        *)
(* ansi_bar stores at most capacity bytes including the terminating NUL,   *)
(* the last byte stored is the NUL and no other is, every glyph is whole,  *)
(* and the result has both complete tags or no tag bracket at all.         *)
C21_BarFitsWhole ==
  (bar.ret = "buf" /\ BarSize >= 1) =>
    /\ Len(bar.mem) <= BarSize
    /\ Len(bar.mem) >= 1
    /\ bar.mem[Len(bar.mem)] = Chr(0)
    /\ \A i \in 1..(Len(bar.mem) - 1) : bar.mem[i] # Chr(0)
    /\ bar.buf = SubSeq(bar.mem, 1, Len(bar.mem) - 1)
    /\ \/ WholeGlyphs(bar.buf)
       \/ bar.args[3] # NullStr /\ BothTags(bar.buf, bar.args[3])

(* a red bar in a buffer with room for both tags and one block only: the   *)
(* second block is left out for the close tag                              *)
C21_Witness ==
  /\ bar.ret = "buf"
  /\ BarSize = 15
  /\ BarWidth = 2
  /\ BarValue = Double(100)
  /\ bar.buf = Tag(w_red) \o <<"xE2", "x96", "x88">> \o CloseTag(w_red)

(* ----------------------------------------------------------------------- *)
(* Specification: ansi_bar_percent                                         *)
(* ----------------------------------------------------------------------- *)

PercentBufs ==
  {<<"buf", n>> : n \in 0..MaxCap} \cup {<<"buf", 128>>, <<NULL, 0>>, <<NULL, 8>>}
Percents == { -10, 0, 5, 73, 100, 150 }

NextPercent ==
  \/ \E b \in PercentBufs : \E c \in {NullStr, w_red} : \E w \in 0..MaxWidth :
       \E t \in {1, 4} : \E p \in Percents :
         ansi_bar_percent(b[1], b[2], c, w, t, p)
  \/ bar_release

SpecPercent == Init /\ [][NextPercent]_vars

(* a call of ansi_bar_percent on a buffer of at least one byte *)
PercentCall == bar.fn = "ansi_bar_percent" /\ bar.args[1] # NULL /\ bar.args[2] >= 1
PercentN == IF bar.args[6] < 0 THEN 0 ELSE IF bar.args[6] > 100 THEN 100 ELSE bar.args[6]
PercentSuffix == <<" ">> \o Dec(PercentN) \o <<"%">>

(* the bar ansi_bar builds for the same buffer, color, width and track *)
PercentBar ==
  bar_result(bar.args[1], bar.args[2], bar.args[3], bar.args[4], bar.args[5],
             Double(PercentN), Double(0), Double(100), 0).buf

(* C22: ansi_bar_percent(p) gives the bar of ansi_bar for the value        *)
(* N = clamp(p, 0, 100) in 0..100, followed by " N%" cut to the capacity   *)
(* that remains after the bar, and the result is NUL-terminated within     *)
(* buf_size bytes.                                                         *)
C22_PercentSuffix ==
  PercentCall =>
    LET room == bar.args[2] - 1 - Len(PercentBar)
        k    == IF Len(PercentSuffix) <= room THEN Len(PercentSuffix) ELSE room
    IN /\ bar.ret = "buf"
       /\ bar.buf = PercentBar \o SubSeq(PercentSuffix, 1, k)
       /\ bar.mem = bar.buf \o <<Chr(0)>>
       /\ Len(bar.mem) <= bar.args[2]
       /\ \A i \in 1..Len(bar.buf) : bar.buf[i] # Chr(0)

(* 150 percent at width 3 is three full blocks and " 100%"; and a suffix   *)
(* cut short by the end of the buffer                                      *)
C22_Witness ==
  /\ PercentCall
  /\ bar.args[6] = 150
  /\ bar.args[2] = 128
  /\ bar.buf = FullBlock \o FullBlock \o FullBlock \o <<" ", "1", "0", "0", "%">>

C22_WitnessCut ==
  /\ PercentCall
  /\ bar.args[6] = 73
  /\ bar.buf = FullBlock \o <<" ", "7">>

(* ----------------------------------------------------------------------- *)
(* Specification: ansi_format and ansi_print with and without a buffer     *)
(* ----------------------------------------------------------------------- *)

TinyBufSize == 4

FormatBufs ==
  { <<"fmt_buf", FmtBufSize>>, <<"tiny_buf", TinyBufSize>>, <<NULL, 0>>,
    <<"fmt_buf", 0>>, <<NULL, TinyBufSize>> }

(* formats, their arguments, and the text printf makes of them *)
FormatCases ==
  { [f |-> <<"h", "i", " ", "%", "d">>, ap |-> <<42>>,
     text |-> <<"h", "i", " ", "4", "2">>],
    [f |-> Tag(w_red) \o <<"%", "s">> \o CloseTag(<<>>), ap |-> << <<"a", "b">> >>,
     text |-> Tag(w_red) \o <<"a", "b">> \o CloseTag(<<>>)],
    [f |-> <<"1", "0", "0", "%", "%">>, ap |-> <<>>,
     text |-> <<"1", "0", "0", "%">>],
    [f |-> <<"a", "%", "d", "%", "s">>, ap |-> <<-7, <<"x">> >>,
     text |-> <<"a", "-", "7", "x">>],
    [f |-> <<>>, ap |-> <<>>, text |-> <<>>],
    [f |-> NullStr, ap |-> <<>>, text |-> <<>>] }

(* strings that end with an attribute active or with none, and NULL *)
PutsArgs ==
  { NullStr, <<"a">>, Tag(w_red) \o <<"a">>, Tag(w_red) \o <<"a">> \o CloseTag(<<>>),
    Tag(w_bold) \o <<"a">>, Tag(w_rainbow) \o <<"a", "b">>,
    Tag(w_cyan \o w_on \o w_blue) \o <<"a">> \o CloseTag(w_cyan) }

NextFormat ==
  \/ \E b \in FormatBufs :
       ansi_init("capture_putc", "capture_flush", b[1], b[2])
       /\ last_call' = "ansi_init" /\ UNCHANGED <<bar, thr, tui>>
  \/ \E v \in {0, 1} : ansi_set_enabled(v) /\ last_call' = "ansi_set_enabled" /\ UNCHANGED <<bar, thr, tui>>
  \/ \E c \in FormatCases : ansi_format(c.f, c.ap) /\ last_call' = "ansi_format" /\ UNCHANGED <<bar, thr, tui>>
  \/ \E c \in FormatCases : ansi_print(c.f, c.ap) /\ last_call' = "ansi_print" /\ UNCHANGED <<bar, thr, tui>>
  \/ \E s \in PutsArgs : ansi_puts(s) /\ last_call' = "ansi_puts" /\ UNCHANGED <<bar, thr, tui>>
  \/ ansi_emit_step /\ UNCHANGED <<last_call, bar, thr, tui>>
  \/ ansi_emit_return /\ UNCHANGED <<last_call, bar, thr, tui>>
  \/ capture_reset /\ UNCHANGED <<last_call, bar, thr, tui>>

SpecFormat == Init /\ [][NextFormat]_vars

(* ansi_vformat has nothing to format with *)
NoFormat(f) == f = NullStr \/ m_buf = NULL \/ m_buf_size = 0

(* the first n elements of s *)
Cut(s, n) == IF Len(s) <= n THEN s ELSE SubSeq(s, 1, n)

(* C23: ansi_format returns the scratch buffer after formatting into it    *)
(* and emits nothing; with a NULL format, no buffer or a buffer size of 0  *)
(* it returns NULL and leaves the buffer and the sink as they were, and    *)
(* ansi_print then emits no byte and calls no flush; a text longer than    *)
(* the buffer is cut to buf_size - 1 bytes and nothing is stored past the  *)
(* buffer.                                                                 *)
C23_FormatContract ==
  [][\A c \in FormatCases :
       /\ ansi_format(c.f, c.ap) =>
            /\ capture_buf' = capture_buf
            /\ pc' = "idle"
            /\ IF NoFormat(c.f)
               THEN fmt'.ret = NULL /\ fmt'.mem = fmt.mem
               ELSE /\ fmt'.ret = m_buf
                    /\ fmt'.mem = Cut(c.text, m_buf_size - 1) \o <<Chr(0)>>
                    /\ Len(fmt'.mem) <= m_buf_size
       /\ ansi_print(c.f, c.ap) =>
            IF NoFormat(c.f)
            THEN capture_buf' = capture_buf /\ pc' = "idle" /\ fmt'.mem = fmt.mem
            ELSE /\ fmt'.mem = Cut(c.text, m_buf_size - 1) \o <<Chr(0)>>
                 /\ Len(fmt'.mem) <= m_buf_size
                 /\ pc' = "emit"
                 /\ str' = Cut(c.text, m_buf_size - 1)
  ]_vars

(* ansi_format returned NULL after the buffer had been written and taken   *)
(* away; ansi_format cut "hi 42" to the tiny buffer                        *)
C23_Witness ==
  /\ last_call = "ansi_format"
  /\ m_buf = NULL
  /\ fmt.ret = NULL
  /\ fmt.mem # <<>>

C23_WitnessCut ==
  /\ last_call = "ansi_format"
  /\ m_buf = "tiny_buf"
  /\ fmt.ret = "tiny_buf"
  /\ fmt.mem = <<"h", "i", " ", Chr(0)>>

(* ----------------------------------------------------------------------- *)
(* Specification: the default colours between and under emission calls     *)
(* ----------------------------------------------------------------------- *)

DefaultInputs ==
  { Tag(w_green) \o <<"x">> \o CloseTag(<<>>) \o <<"y">>,
    Tag(w_red) \o <<"x">> \o CloseTag(<<>>) \o <<"y">>,
    <<"h", "e", "l", "l", "o">>,
    Tag(w_bold) \o <<"a">> }

NextDefault ==
  \/ \E v \in {0, 1} : ansi_set_enabled(v) /\ last_call' = "ansi_set_enabled" /\ UNCHANGED <<bar, thr, tui>>
  \/ \E c \in ColorArgs : ansi_set_fg(c) /\ last_call' = "ansi_set_fg" /\ UNCHANGED <<bar, thr, tui>>
  \/ \E c \in ColorArgs : ansi_set_bg(c) /\ last_call' = "ansi_set_bg" /\ UNCHANGED <<bar, thr, tui>>
  \/ \E s \in DefaultInputs : ansi_puts(s) /\ last_call' = "ansi_puts" /\ UNCHANGED <<bar, thr, tui>>
  \/ ansi_emit_step /\ UNCHANGED <<last_call, bar, thr, tui>>
  \/ ansi_emit_return /\ UNCHANGED <<last_call, bar, thr, tui>>
  \/ capture_reset /\ UNCHANGED <<last_call, bar, thr, tui>>

SpecDefault == Init /\ [][NextDefault]_vars

(* the arguments of ColorArgs: what they name, and the escape codes of the *)
(* colour among them                                                       *)
SetCases ==
  { [name |-> NullStr, kind |-> "null", fg |-> NULL, bg |-> NULL],
    [name |-> w_green, kind |-> "color", fg |-> "ESC[32m", bg |-> "ESC[42m"],
    [name |-> w_bold, kind |-> "style", fg |-> NULL, bg |-> NULL],
    [name |-> <<"n", "o">>, kind |-> "unknown", fg |-> NULL, bg |-> NULL] }

(* C24: ansi_set_fg(name) changes the default foreground only for a known  *)
(* colour name, and then emits the colour's escape at once iff color is    *)
(* enabled; a style name or an unknown name leaves the default and the     *)
(* output as they were; NULL clears the default and emits nothing. The     *)
(* same for ansi_set_bg and the background codes.                          *)
C24_SetDefault ==
  [][\A c \in SetCases :
       /\ ansi_set_fg(c.name) =>
            /\ m_default_bg' = m_default_bg
            /\ IF c.kind = "null"
               THEN m_default_fg' = NULL /\ capture_buf' = capture_buf
               ELSE IF c.kind = "color"
               THEN /\ m_default_fg' = c.fg
                    /\ capture_buf' = capture_buf
                                      \o (IF m_color_enabled # 0 THEN <<c.fg>> ELSE <<>>)
               ELSE m_default_fg' = m_default_fg /\ capture_buf' = capture_buf
       /\ ansi_set_bg(c.name) =>
            /\ m_default_fg' = m_default_fg
            /\ IF c.kind = "null"
               THEN m_default_bg' = NULL /\ capture_buf' = capture_buf
               ELSE IF c.kind = "color"
               THEN /\ m_default_bg' = c.bg
                    /\ capture_buf' = capture_buf
                                      \o (IF m_color_enabled # 0 THEN <<c.bg>> ELSE <<>>)
               ELSE m_default_bg' = m_default_bg /\ capture_buf' = capture_buf
  ]_vars

(* ansi_set_fg("green") with color enabled has just emitted the escape     *)
(* over a default background set while color was disabled                  *)
C24_Witness ==
  /\ pc = "idle"
  /\ m_color_enabled = 1
  /\ m_default_fg = "ESC[32m"
  /\ m_default_bg = "ESC[42m"
  /\ capture_buf = <<"ESC[32m">>

(* ----------------------------------------------------------------------- *)
(* The end of an emission call (SpecFormat)                                *)
(* ----------------------------------------------------------------------- *)

(* ansi_emit has read the whole string and is about to leave the loop *)
AtEnd == pc = "emit" /\ next_markup_token(str, pos).type = "TOK_END"

(* TagState holds a foreground, a background or a style or effect bit *)
Active ==
  \/ m_tag_state.fg_code # NULL
  \/ m_tag_state.bg_code # NULL
  \/ m_tag_state.styles # 0

Flushes(out) == Len(SelectSeq(out, LAMBDA e : e = FLUSH))

(* C25: a call on a non-NULL string ends with the reset escape iff color   *)
(* is enabled and TagState still holds a foreground, a background or a     *)
(* style or effect bit, and then with exactly one call of the flush        *)
(* function, after the last byte of the call; nothing is emitted after the *)
(* flush; a NULL string produces neither bytes nor a flush.                *)
C25_ResetThenFlush ==
  /\ [][ /\ (AtEnd /\ ansi_emit_step) =>
             ( /\ Flushes(capture_buf) = 0
               /\ capture_buf' = capture_buf
                     \o (IF m_color_enabled # 0 /\ Active THEN <<RESET>> ELSE <<>>)
                     \o <<FLUSH>> )
         /\ (pc = "emit" /\ ~AtEnd) => (Flushes(capture_buf') = 0)
         /\ (pc = "flushed") => (capture_buf' \in {capture_buf, <<>>})
         /\ (ansi_puts(NullStr)
               \/ (\E c \in FormatCases : NoFormat(c.f) /\ ansi_print(c.f, c.ap)))
             => (capture_buf' = capture_buf /\ pc' = "idle")
       ]_vars
  /\ [](pc = "flushed" => (Flushes(capture_buf) = 1 /\ capture_buf[Len(capture_buf)] = FLUSH))
  /\ []((pc = "idle" /\ last_call \in {"ansi_puts", "ansi_print"} /\ capture_buf # <<>>)
          => (Flushes(capture_buf) = 1 /\ capture_buf[Len(capture_buf)] = FLUSH))

(* "[red]a" has ended with the reset and the flush *)
C25_Witness ==
  /\ pc = "flushed"
  /\ str = Tag(w_red) \o <<"a">>
  /\ capture_buf = <<"ESC[31m", "a", RESET, FLUSH>>

(* ansi_puts(NULL) has returned and the sink is empty *)
C25_WitnessNull ==
  /\ pc = "idle"
  /\ last_call = "ansi_puts"
  /\ capture_buf = <<>>

(* ----------------------------------------------------------------------- *)
(* Specification: two threads, with and without a mutex around the calls   *)
(* ----------------------------------------------------------------------- *)

ThreadTexts ==
  { Tag(w_red) \o <<"a">> \o CloseTag(<<>>),
    <<"b">>,
    Tag(w_cyan \o w_on \o w_blue) \o <<"c", "d">> }

NextThreads ==
  \/ thread_use_mutex
  \/ \E s \in ThreadTexts : thread_puts(s)
  \/ thread_step
  \/ thread_return
  \/ thread_switch

SpecThreads == Init /\ [][NextThreads]_vars

(* the statics a call on s has made of fresh ones when it stands at p *)
RECURSIVE RunTo(_, _, _, _)
RunTo(m, s, q, p) ==
  LET tok == next_markup_token(s, q) IN
  IF q >= p \/ tok.type = "TOK_END" THEN m
  ELSE RunTo(ansi_emit_token(m, s, tok), s, tok.pos, p)
Alone(s, p) == RunTo(ansi_emit_enter(Statics), s, 1, p)

(* the calls that are inside the token loop: the running thread's and the  *)
(* waiting thread's                                                        *)
MidCalls ==
  (IF pc = "emit" THEN {[str |-> str, pos |-> pos]} ELSE {})
  \cup (IF thr.other.pc = "emit"
        THEN {[str |-> thr.other.str, pos |-> thr.other.pos]} ELSE {})

(* a call finds in TagState something else than what it put there itself  *)
Disturbed == \E c \in MidCalls : m_tag_state # Alone(c.str, c.pos).tag_state

(* the "b" of the call ansi_puts("b") went out behind a colour escape of   *)
(* another call, with no reset between                                     *)
ForeignAttrs ==
  \E i \in 1..Len(capture_buf) :
    /\ capture_buf[i] = "b"
    /\ \E j \in 1..(i - 1) :
         /\ IsEscape(capture_buf[j])
         /\ capture_buf[j] # RESET
         /\ \A k \in (j + 1)..(i - 1) : capture_buf[k] # RESET

(* a call that opened a colour and has not closed it finds TagState empty: *)
(* the other call's reset at its start wiped it                            *)
Wiped ==
  \E c \in MidCalls :
    /\ Alone(c.str, c.pos).tag_state.fg_code # NULL
    /\ m_tag_state = TagState(NULL, NULL, 0)

(* C26: the statics are shared by all calls, so two calls of ansi_puts     *)
(* that interleave token by token without a mutex reach a state in which   *)
(* one call's text goes out under the attributes the other call opened, or *)
(* in which the reset at the start of one call has wiped the attributes    *)
(* the other call has active; with a mutex around each call no such state  *)
(* is reachable.                                                           *)
C26_MutexIsolates ==
  thr.locking => (~ForeignAttrs /\ ~Wiped /\ ~Disturbed)

(* without the mutex: text under foreign attributes; wiped attributes *)
C26_Witness == ~thr.locking /\ ForeignAttrs

C26_WitnessWiped == ~thr.locking /\ Wiped

(* with the mutex both calls have been made, one after the other *)
C26_WitnessMutex ==
  /\ thr.locking
  /\ thr.calls = <<Tag(w_red) \o <<"a">> \o CloseTag(<<>>), <<"b">> >>
  /\ Flushes(capture_buf) = 2


(* ----------------------------------------------------------------------- *)
(* Widgets: update gating, enable, toggle                                  *)
(* ----------------------------------------------------------------------- *)

w_Online == <<"O", "n", "l", "i", "n", "e">>
w_TEMP   == <<"T", "E", "M", "P">>
w_CPU    == <<"C", "P", "U">>

TheFrame == [row |-> 2, col |-> 3, width |-> 30, height |-> 5]

AtOrigin  == [row |-> 1, col |-> 1, border |-> FALSE, color |-> w_green, parent |-> <<>>]
Boxed  == [row |-> 5, col |-> 10, border |-> TRUE, color |-> w_green, parent |-> <<>>]
Inside == [row |-> -1, col |-> -12, border |-> TRUE, color |-> w_green, parent |-> <<TheFrame>>]
Middle == [row |-> 1, col |-> 0, border |-> TRUE, color |-> w_green, parent |-> <<TheFrame>>]

Widget(kind, place, label, buf, has_state) ==
  [kind |-> kind, place |-> place, label |-> label, bar_width |-> MaxWidth, track |-> 1,
   bar_buf |-> buf, bar_buf_size |-> IF buf = NULL THEN 0 ELSE 128,
   has_state |-> has_state, width |-> IF kind = "metric" THEN 14 ELSE 0,
   title |-> w_TEMP, color_lo |-> w_blue, color_hi |-> w_red,
   thresh_lo |-> 20, thresh_hi |-> 80]

Widgets ==
  { Widget(k, AtOrigin, NullStr, b, s) : k \in {"bar", "pbar"}, b \in {"bar_buf", NULL},
                                      s \in BOOLEAN }
  \cup { Widget("bar", Inside, w_CPU, "bar_buf", TRUE),
         Widget("pbar", Boxed, w_CPU, "bar_buf", TRUE) }
  \cup { Widget("check", AtOrigin, w_Online, NULL, s) : s \in BOOLEAN }
  \cup { Widget("check", Boxed, NullStr, NULL, TRUE) }
  \cup { Widget("metric", Boxed, NullStr, NULL, s) : s \in BOOLEAN }
  \cup { Widget("metric", Middle, NullStr, NULL, TRUE) }

TuiValues   == { Double(0), Double(50), NaN }
TuiRanges   == { <<Double(0), Double(100)>>, <<Double(0), Double(200)>> }
TuiPercents == { -5, 0, 50, 150 }
TuiChecks   == { 0, 1, 2 }
TuiMetrics  == { Double(10), Double(50), Double(90) }

NextTui ==
  \/ \E w \in Widgets : do_tui_bar_init(w)
  \/ \E w \in Widgets : do_tui_pbar_init(w)
  \/ \E w \in Widgets : \E s \in {0, 1} : do_tui_check_init(w, s)
  \/ \E w \in Widgets : do_tui_metric_init(w)
  \/ \E v \in TuiValues : \E r \in TuiRanges : \E f \in {0, 1} :
       do_tui_bar_update(v, r[1], r[2], f)
  \/ \E p \in TuiPercents : \E f \in {0, 1} : do_tui_pbar_update(p, f)
  \/ \E s \in TuiChecks : \E f \in {0, 1} : do_tui_check_update(s, f)
  \/ \E v \in TuiMetrics : \E f \in {0, 1} : do_tui_metric_update(v, f)
  \/ do_tui_check_toggle
  \/ \E e \in {0, 1} : do_tui_enable(e)
  \/ tui_draw
  \/ tui_release
  \/ capture_reset /\ UNCHANGED <<last_call, bar, thr, tui>>

SpecTui == Init /\ [][NextTui]_vars

TuiKinds == tui.kind \in {"none", "bar", "pbar", "check", "metric"}

(* the last widget call was an update; its arguments and the state block   *)
(* it found                                                                *)
Updated    == tui.kind # "none" /\ tui.call.fn = "update"
UpdArgs    == tui.call.args
UpdForce   == UpdArgs[Len(UpdArgs)]
Found      == tui.call.before
WasEnabled == tui.w.has_state => Found.enabled # 0
HasBarBuf  == tui.kind \in {"bar", "pbar"} => tui.w.bar_buf # NULL

ClampedPct(p) == IF p < 0 THEN 0 ELSE IF p > 100 THEN 100 ELSE p

(* a == b for two doubles: a NaN equals nothing *)
SameNumber(a, b) == ~a.nan /\ ~b.nan /\ a.n = b.n

(* the new value differs from the stored one: value and range for a bar,   *)
(* the clamped percent for a percent bar                                   *)
Differs ==
  CASE tui.kind = "bar"    -> ~(SameNumber(Found.value, UpdArgs[1])
                               /\ SameNumber(Found.min, UpdArgs[2])
                               /\ SameNumber(Found.max, UpdArgs[3]))
    [] tui.kind = "pbar"   -> Found.percent # ClampedPct(UpdArgs[1])
    [] tui.kind = "check"  -> Found.checked # UpdArgs[1]
    [] tui.kind = "metric" -> ~SameNumber(Found.value, UpdArgs[1])

(* the new value differs from the stored one, the value alone *)
ValueDiffers ==
  CASE tui.kind = "bar"    -> Found.value # UpdArgs[1]
    [] tui.kind = "pbar"   -> Found.percent # ClampedPct(UpdArgs[1])
    [] tui.kind = "check"  -> Found.checked # UpdArgs[1]
    [] tui.kind = "metric" -> Found.value # UpdArgs[1]

Holds(ws, a) ==
  CASE tui.kind = "bar"    -> ws.value = a[1] /\ ws.min = a[2] /\ ws.max = a[3]
    [] tui.kind = "pbar"   -> ws.percent = ClampedPct(a[1])
    [] tui.kind = "check"  -> ws.checked = a[1]
    [] tui.kind = "metric" -> ws.value = a[1]

StoredArgs(ws) ==
  CASE tui.kind = "bar"    -> <<ws.value, ws.min, ws.max>>
    [] tui.kind = "pbar"   -> <<ws.percent>>
    [] tui.kind = "check"  -> <<ws.checked>>
    [] tui.kind = "metric" -> <<ws.value>>

FullCells(out) == Len(SelectSeq(out, LAMBDA c : c = "x88"))
CheckGlyph == <<"xE2", "x9C", "x85">>
CrossGlyph == <<"xE2", "x9D", "x8C">>

(* the sink shows the value a: the full blocks of a bar of numbers, the    *)
(* percent text, the check or the cross, the value text of a metric        *)
Shows(out, a) ==
  CASE tui.kind = "bar"    ->
         (~a[1].nan /\ ~a[2].nan /\ ~a[3].nan) =>
           FullCells(out) =
             (((a[1].n - a[2].n) * tui.w.bar_width * 8) \div (a[3].n - a[2].n)) \div 8
    [] tui.kind = "pbar"   -> Contains(out, <<" ">> \o Dec(ClampedPct(a[1])) \o <<"%">>)
    [] tui.kind = "check"  -> Contains(out, IF a[1] # 0 THEN CheckGlyph ELSE CrossGlyph)
    [] tui.kind = "metric" -> Contains(out, Dec(a[1].n) \o <<".", "0">>)

Redraws == HasBarBuf /\ WasEnabled /\ (~tui.w.has_state \/ UpdForce # 0 \/ Differs)

(* C27: an update of a bar, percent bar, check or metric redraws, and      *)
(* stores the new value in the state block if there is one, exactly when   *)
(* the widget is enabled (or has no state block), a bar or percent bar has *)
(* a bar buffer, and force is non-zero or there is no state block or the   *)
(* new value differs from the stored one (for a bar the value or its       *)
(* range, for a percent bar the percent clamped to 0..100, a NaN differs   *)
(* from everything); otherwise it emits nothing and leaves the state block *)
(* as it was.  Enabling a widget that has a state block (and, for the bars, *)
(* a bar buffer) redraws the value stored before and keeps it stored.      *)
C27_UpdateGate ==
  /\ Updated =>
       IF Redraws
       THEN /\ tui.call.drew
            /\ (tui.w.has_state => Holds(tui.ws, UpdArgs))
            /\ (capture_buf # <<>> => Shows(capture_buf, UpdArgs))
       ELSE ~tui.call.drew /\ tui.ws = Found /\ capture_buf = <<>>
  /\ (tui.kind # "none" /\ tui.call.fn = "enable" /\ tui.w.has_state) =>
       /\ tui.ws.enabled # 0 <=> tui.call.args[1] # 0
       /\ StoredArgs(tui.ws) = StoredArgs(Found)
       /\ (tui.call.args[1] # 0 /\ HasBarBuf) =>
            /\ tui.call.drew
            /\ (capture_buf # <<>> => Shows(capture_buf, StoredArgs(Found)))

(* C27 as stated: with a state block the update redraws and stores exactly *)
(* when the widget is enabled and force is non-zero or the value differs,  *)
(* without a state block it always redraws                                 *)
C27_UpdateGateAsStated ==
  Updated =>
    IF tui.w.has_state => (Found.enabled # 0 /\ (UpdForce # 0 \/ ValueDiffers))
    THEN tui.call.drew /\ (tui.w.has_state => Holds(tui.ws, UpdArgs))
    ELSE ~tui.call.drew /\ tui.ws = Found

(* an unforced update with a new value was drawn and stored *)
C27_Witness ==
  /\ Updated /\ tui.w.has_state /\ UpdForce = 0 /\ Differs /\ tui.call.drew
  /\ tui.kind = "pbar" /\ UpdArgs[1] = 150 /\ tui.ws.percent = 100
  /\ Contains(capture_buf, <<" ", "1", "0", "0", "%">>)

(* an unforced update with the stored value drew nothing *)
C27_WitnessSame ==
  /\ Updated /\ tui.w.has_state /\ Found.enabled # 0 /\ UpdForce = 0 /\ ~Differs
  /\ tui.kind = "pbar" /\ UpdArgs[1] = 150 /\ ~tui.call.drew

(* a forced update of a disabled widget drew nothing *)
C27_WitnessDisabled ==
  /\ Updated /\ tui.w.has_state /\ Found.enabled = 0 /\ UpdForce # 0 /\ Differs
  /\ ~tui.call.drew /\ tui.ws = Found

(* enabling drew the value stored before the widget was disabled *)
C27_WitnessEnable ==
  /\ tui.kind = "check" /\ tui.call.fn = "enable" /\ tui.call.args[1] # 0
  /\ Found.enabled = 0 /\ Found.checked # 0 /\ Contains(capture_buf, CheckGlyph)

(* a forced update of an enabled bar without a bar buffer drew nothing *)
C27_WitnessNoBuf ==
  /\ Updated /\ tui.kind = "bar" /\ tui.w.bar_buf = NULL /\ UpdForce # 0
  /\ WasEnabled /\ ~tui.call.drew

(* an unforced update of a bar with the stored value and a new range drew *)
C27_WitnessRange ==
  /\ Updated /\ tui.kind = "bar" /\ tui.w.has_state /\ UpdForce = 0
  /\ Found.value = UpdArgs[1] /\ Found.max # UpdArgs[3] /\ tui.call.drew

Toggled == tui.kind = "check" /\ tui.call.fn = "toggle"

(* C28: tui_check_toggle on an enabled check widget with a state block     *)
(* inverts the stored checked state and draws the indicator of the new     *)
(* state (the cross when it becomes unchecked, the check when it becomes   *)
(* checked), so a second toggle brings back the checked/unchecked state    *)
(* the first one found; without a state block, or while the widget is      *)
(* disabled, it emits nothing and changes nothing.                         *)
C28_Toggle ==
  /\ [](Toggled =>
          IF tui.w.has_state /\ Found.enabled # 0
          THEN /\ (tui.ws.checked # 0) <=> (Found.checked = 0)
               /\ tui.ws.enabled = Found.enabled
               /\ tui.call.drew
               /\ (capture_buf # <<>>) =>
                    /\ Contains(capture_buf, IF Found.checked = 0 THEN CheckGlyph
                                             ELSE CrossGlyph)
                    /\ ~Contains(capture_buf, IF Found.checked = 0 THEN CrossGlyph
                                              ELSE CheckGlyph)
          ELSE ~tui.call.drew /\ tui.ws = Found /\ capture_buf = <<>>)
  /\ [][(Toggled /\ tui.w.has_state /\ tui.ws.enabled # 0
         /\ tui'.kind = "check" /\ tui'.call # tui.call /\ tui'.call.fn = "toggle")
        => ((tui'.ws.checked # 0) <=> (Found.checked # 0))]_vars

(* a checked widget was toggled: the cross was drawn *)
C28_Witness ==
  /\ Toggled /\ tui.w.has_state /\ Found.enabled # 0 /\ Found.checked # 0
  /\ tui.ws.checked = 0 /\ Contains(capture_buf, CrossGlyph)

(* the toggle that followed it: the check was drawn *)
C28_WitnessBack ==
  /\ Toggled /\ tui.w.has_state /\ Found.enabled # 0 /\ Found.checked = 0
  /\ tui.ws.checked # 0 /\ Contains(capture_buf, CheckGlyph)

(* a toggle without a state block, and one of a disabled widget *)
C28_WitnessNoState == Toggled /\ ~tui.w.has_state /\ ~tui.call.drew
C28_WitnessDisabled ==
  Toggled /\ tui.w.has_state /\ Found.enabled = 0 /\ ~tui.call.drew /\ tui.ws = Found

(* C29: when an emission call starts (ansi_emit has made its resets and    *)
(* has read no token yet) TagState holds the default foreground, the       *)
(* default background and no styles.                                       *)
C29_StartsFromDefault ==
  (pc = "emit" /\ pos = 1) => m_tag_state = TagState(m_default_fg, m_default_bg, 0)

(* ----------------------------------------------------------------------- *)
(* Specification: close tags that name a colour, after named and numeric   *)
(* opens                                                                   *)
(* ----------------------------------------------------------------------- *)

w_orange == <<"o", "r", "a", "n", "g", "e">>
w_fg208  == <<"f", "g", ":", "2", "0", "8">>
w_bg208  == <<"b", "g", ":", "2", "0", "8">>

(* the open tags, and the escape codes they make the active foreground and *)
(* background                                                              *)
OpenCases ==
  { [tag |-> w_orange, fg |-> "ESC[38;5;208m", bg |-> NULL],
    [tag |-> w_fg208, fg |-> "ESC[38;5;208m", bg |-> NULL],
    [tag |-> w_red, fg |-> "ESC[31m", bg |-> NULL],
    [tag |-> w_orange \o w_on \o w_orange, fg |-> "ESC[38;5;208m", bg |-> "ESC[48;5;208m"],
    [tag |-> w_fg208 \o w_on \o w_bg208, fg |-> "ESC[38;5;208m", bg |-> "ESC[48;5;208m"],
    [tag |-> w_red \o w_on \o w_blue, fg |-> "ESC[31m", bg |-> "ESC[44m"] }

(* the close tags, the colour each names for the foreground and the one it *)
(* names after on for the background                                       *)
CloseCases ==
  { [tag |-> <<"/">> \o w_orange, fg |-> w_orange, bg |-> NullStr],
    [tag |-> <<"/">> \o w_red, fg |-> w_red, bg |-> NullStr],
    [tag |-> <<"/">> \o w_orange \o w_on \o w_orange, fg |-> w_orange, bg |-> w_orange],
    [tag |-> <<"/">> \o w_red \o w_on \o w_blue, fg |-> w_red, bg |-> w_blue] }

CloseText(o, c) == Tag(o.tag) \o <<"x">> \o Tag(c.tag) \o <<"y">>
CloseTexts == { CloseText(o, c) : o \in OpenCases, c \in CloseCases }

NextClose ==
  \/ \E c \in {NullStr, w_green} : ansi_set_fg(c) /\ UNCHANGED <<last_call, bar, thr, tui>>
  \/ \E s \in CloseTexts : ansi_puts(s) /\ UNCHANGED <<last_call, bar, thr, tui>>
  \/ ansi_emit_step /\ UNCHANGED <<last_call, bar, thr, tui>>
  \/ ansi_emit_return /\ UNCHANGED <<last_call, bar, thr, tui>>
  \/ capture_reset /\ UNCHANGED <<last_call, bar, thr, tui>>

SpecClose == Init /\ [][NextClose]_vars

BgOf(w) == ATTRS[lookup_attr(w)].bg_code

(* the escape code that is the active foreground, the active background *)
ActiveFg == Deref(Statics, m_tag_state.fg_code)
ActiveBg == Deref(Statics, m_tag_state.bg_code)

(* the call has handled the close tag of [o]x[/c]y and not yet the y *)
Closed(o, c) == pc = "emit" /\ str = CloseText(o, c) /\ pos = Len(str)

(* C30: a close tag naming the colour X puts the default foreground in     *)
(* place of the active one exactly when the foreground escape code of X    *)
(* equals the escape code of the active foreground, whether a name or a    *)
(* number opened it, and otherwise leaves the foreground as it is; the     *)
(* colour named after on does the same for the background.                 *)
C30_CloseByCode ==
  \A o \in OpenCases : \A c \in CloseCases :
    Closed(o, c) =>
      /\ ActiveFg = IF FgOf(c.fg) = o.fg THEN Deref(Statics, m_default_fg) ELSE o.fg
      /\ (c.bg # NullStr) =>
           (ActiveBg = IF BgOf(c.bg) = o.bg THEN Deref(Statics, m_default_bg) ELSE o.bg)

(* what the code does: the named branch compares the address of the table  *)
(* literal with the pointer in TagState, which a numeric open left at the  *)
(* numeric code buffer                                                     *)
CloseByAddress ==
  \A o \in OpenCases : \A c \in CloseCases :
    Closed(o, c) =>
      /\ ActiveFg = IF FgOf(c.fg) = o.fg /\ o.tag[1] # "f"
                    THEN Deref(Statics, m_default_fg) ELSE o.fg
      /\ (c.bg # NullStr) =>
           (ActiveBg = IF BgOf(c.bg) = o.bg /\ o.tag[1] # "f"
                       THEN Deref(Statics, m_default_bg) ELSE o.bg)
(* ----------------------------------------------------------------------- *)
(* Specification: numeric close words, after numeric and named opens       *)
(* ----------------------------------------------------------------------- *)

(* open tags, with the escape codes they make the active foreground and    *)
(* background (NULL when the tag sets none)                                *)
NumOpenCases ==
  { [tag |-> w_fg \o Dec(196), fg |-> "ESC[38;5;196m", bg |-> NULL],
    [tag |-> w_fg \o Dec(999), fg |-> "ESC[38;5;255m", bg |-> NULL],
    [tag |-> w_fg \o Dec(-5), fg |-> "ESC[38;5;0m", bg |-> NULL],
    [tag |-> w_orange, fg |-> "ESC[38;5;208m", bg |-> NULL],
    [tag |-> w_bold, fg |-> NULL, bg |-> NULL],
    [tag |-> w_red \o w_on \o w_bg \o Dec(196), fg |-> "ESC[31m", bg |-> "ESC[48;5;196m"],
    [tag |-> w_fg \o Dec(17) \o w_on \o w_bg \o Dec(999),
     fg |-> "ESC[38;5;17m", bg |-> "ESC[48;5;255m"] }

(* the numbers of the close words: fg is <<n>> for the word fg:n, bg is    *)
(* <<n>> for bg:n after on, and <<>> when the close tag has no such word   *)
CloseNumbers == { 196, 197, 300, 255, 208, 0, -5, 17 }
NumCloseCases ==
  { [fg |-> <<n>>, bg |-> <<>>] : n \in CloseNumbers }
  \cup { [fg |-> <<>>, bg |-> <<n>>] : n \in {196, 300, 255} }
  \cup { [fg |-> <<17>>, bg |-> <<999>>], [fg |-> <<196>>, bg |-> <<196>>] }

NumCloseTag(c) ==
  <<"/">> \o (IF c.fg = <<>> THEN w_bold ELSE w_fg \o Dec(c.fg[1]))
          \o (IF c.bg = <<>> THEN <<>> ELSE w_on \o w_bg \o Dec(c.bg[1]))

NumCloseText(o, c) == Tag(o.tag) \o <<"x">> \o Tag(NumCloseTag(c)) \o <<"y">>
NumCloseTexts == { NumCloseText(o, c) : o \in NumOpenCases, c \in NumCloseCases }

NextNumClose ==
  \/ \E c \in {NullStr, w_green} : ansi_set_fg(c) /\ UNCHANGED <<last_call, bar, thr, tui>>
  \/ \E c \in {NullStr, w_blue} : ansi_set_bg(c) /\ UNCHANGED <<last_call, bar, thr, tui>>
  \/ \E s \in NumCloseTexts : ansi_puts(s) /\ UNCHANGED <<last_call, bar, thr, tui>>
  \/ ansi_emit_step /\ UNCHANGED <<last_call, bar, thr, tui>>
  \/ ansi_emit_return /\ UNCHANGED <<last_call, bar, thr, tui>>
  \/ capture_reset /\ UNCHANGED <<last_call, bar, thr, tui>>

SpecNumClose == Init /\ [][NextNumClose]_vars

(* the call has handled the close tag of [o]x[/c]y and not yet the y *)
NumClosed(o, c) == pc = "emit" /\ str = NumCloseText(o, c) /\ pos = Len(str)

(* C31: a close word fg:n puts the default foreground in place of the      *)
(* active one exactly when the 256-colour escape of n clamped to 0..255 is *)
(* the text of the active foreground code; when the texts differ, or no    *)
(* foreground is active, or the tag has no fg:n word, the foreground stays *)
(* as it is.  bg:n after on does the same for the background.  So          *)
(* [/fg:300] closes [fg:999] and [/fg:196] closes [fg:196].                *)
C31_NumericClose ==
  \A o \in NumOpenCases : \A c \in NumCloseCases :
    NumClosed(o, c) =>
      /\ ActiveFg = IF c.fg # <<>> /\ o.fg # NULL /\ Fg256Esc(c.fg[1]) = o.fg
                    THEN Deref(Statics, m_default_fg) ELSE o.fg
      /\ ActiveBg = IF c.bg # <<>> /\ o.bg # NULL /\ Bg256Esc(c.bg[1]) = o.bg
                    THEN Deref(Statics, m_default_bg) ELSE o.bg

(* [fg:999]x[/fg:300] was handled with the default foreground green: the   *)
(* foreground is green again                                               *)
C31_Witness ==
  /\ pc = "emit" /\ pos = Len(str)
  /\ str = Tag(w_fg \o Dec(999)) \o <<"x">> \o Tag(<<"/">> \o w_fg \o Dec(300)) \o <<"y">>
  /\ m_default_fg = FgOf(w_green)
  /\ m_tag_state.fg_code = FgOf(w_green)
  /\ capture_buf[Len(capture_buf)] = FgOf(w_green)

(* [fg:196]x[/fg:197] was handled: the foreground is still 196 *)
C31_WitnessKept ==
  /\ pc = "emit" /\ pos = Len(str)
  /\ str = Tag(w_fg \o Dec(196)) \o <<"x">> \o Tag(<<"/">> \o w_fg \o Dec(197)) \o <<"y">>
  /\ ActiveFg = "ESC[38;5;196m"


(* ----------------------------------------------------------------------- *)
(* Specification: effect spans, how they open, are counted and are closed  *)
(* ----------------------------------------------------------------------- *)

w_x == <<"x">>

(* what is open when the effect opens: the tag, the foreground and the     *)
(* style bits it leaves, the codes reapply_state writes for them           *)
SpanBefore ==
  { [text |-> <<>>, fg |-> NULL, styles |-> 0, codes |-> <<>>],
    [text |-> Tag(w_red), fg |-> FgOf(w_red), styles |-> 0, codes |-> <<FgOf(w_red)>>],
    [text |-> Tag(w_bold), fg |-> NULL, styles |-> STYLE_BOLD, codes |-> <<BOLD>>] }

(* the close tags of an effect: the name alone, the name and a further word *)
EffectCloses ==
  { [open |-> w_gradient \o w_sp \o w_red \o w_sp \o w_blue, name |-> w_gradient,
     bit |-> STYLE_GRADIENT, exact |-> TRUE, close |-> w_gradient],
    [open |-> w_gradient \o w_sp \o w_red \o w_sp \o w_blue, name |-> w_gradient,
     bit |-> STYLE_GRADIENT, exact |-> FALSE, close |-> w_gradient \o w_sp \o w_x],
    [open |-> w_rainbow, name |-> w_rainbow,
     bit |-> STYLE_RAINBOW, exact |-> TRUE, close |-> w_rainbow],
    [open |-> w_rainbow, name |-> w_rainbow,
     bit |-> STYLE_RAINBOW, exact |-> FALSE, close |-> w_rainbow \o w_sp \o w_x] }

(* [before][effect]ab[/close]c *)
EffectCloseText(b, e) ==
  b.text \o Tag(e.open) \o <<"a", "b">> \o CloseTag(e.close) \o <<"c">>
EffectCloseTexts == { EffectCloseText(b, e) : b \in SpanBefore, e \in EffectCloses }

(* the call has handled the close tag of the text and not yet the c *)
EffectClosed(b, e) == pc = "emit" /\ str = EffectCloseText(b, e) /\ pos = Len(str)

(* the last n elements written *)
LastOut(n) == SubSeq(capture_buf, Len(capture_buf) - n + 1, Len(capture_buf))

(* the close tag cleared the bit of its effect, left the rest of TagState, *)
(* and wrote a reset and then the codes of what is still open              *)
ClosedAndReapplied(b, e) ==
  /\ ~HasBit(m_tag_state.styles, e.bit)
  /\ m_tag_state.styles = b.styles
  /\ m_tag_state.fg_code = b.fg
  /\ Len(capture_buf) >= 1 + Len(b.codes)
  /\ LastOut(1 + Len(b.codes)) = <<RESET>> \o b.codes

(* the index and the length of the effect of e *)
EffectIdx(e) == IF e.name = w_gradient THEN m_gradient.idx ELSE m_rainbow_idx
EffectLength(e) == IF e.name = w_gradient THEN m_gradient.len ELSE m_rainbow_len

(* C32 as the specification states it: [/gradient] and [/rainbow], by      *)
(* exact name only, clear the bit of their effect, set the index counters  *)
(* of that effect to zero, and write a reset and the remaining TagState.   *)
C32_CloseResetsCounters ==
  \A b \in SpanBefore : \A e \in EffectCloses :
    (EffectClosed(b, e) /\ e.exact) =>
      /\ ClosedAndReapplied(b, e)
      /\ EffectIdx(e) = 0
      /\ EffectLength(e) = 0

(* C32, amended: [/gradient], [/gradient w] and [/rainbow], [/rainbow w]   *)
(* clear the bit of their effect and write a reset followed by the codes   *)
(* of the remaining TagState, so a colour opened before the effect is      *)
(* written again for the text after it.  Only [/rainbow] by exact name     *)
(* sets the rainbow index and length to zero; [/rainbow w] leaves them,    *)
(* and a gradient close leaves the gradient index and length as the span   *)
(* left them (here 2 and 2).                                               *)
C32_EffectClose ==
  \A b \in SpanBefore : \A e \in EffectCloses :
    EffectClosed(b, e) =>
      /\ ClosedAndReapplied(b, e)
      /\ EffectIdx(e) = (IF e.name = w_rainbow /\ e.exact THEN 0 ELSE 2)
      /\ EffectLength(e) = (IF e.name = w_rainbow /\ e.exact THEN 0 ELSE 2)

(* [red][gradient red blue]ab[/gradient] was handled: red is written again *)
(* after the reset, and the gradient counters are still 2 and 2            *)
C32_Witness ==
  /\ pc = "emit" /\ pos = Len(str)
  /\ str = Tag(w_red) \o Tag(w_gradient \o w_sp \o w_red \o w_sp \o w_blue)
           \o <<"a", "b">> \o CloseTag(w_gradient) \o <<"c">>
  /\ LastOut(2) = <<RESET, "ESC[31m">>
  /\ m_gradient.idx = 2 /\ m_gradient.len = 2
  /\ ~HasBit(m_tag_state.styles, STYLE_GRADIENT)

(* [bold][rainbow]ab[/rainbow] was handled: bold is written again and the  *)
(* rainbow counters are zero                                               *)
C32_WitnessRainbow ==
  /\ pc = "emit" /\ pos = Len(str)
  /\ str = Tag(w_bold) \o Tag(w_rainbow) \o <<"a", "b">> \o CloseTag(w_rainbow) \o <<"c">>
  /\ LastOut(2) = <<RESET, BOLD>>
  /\ m_rainbow_idx = 0 /\ m_rainbow_len = 0
  /\ m_tag_state.styles = STYLE_BOLD

(* the texts before a [gradient a b] that is not accepted: the output they *)
(* give, whether they leave an effect active, and what the call writes at  *)
(* its end for what they leave open                                        *)
GradRB == w_gradient \o w_sp \o w_red \o w_sp \o w_blue
BadGradBefore ==
  { [text |-> <<>>, out |-> <<>>, active |-> FALSE, tail |-> <<>>],
    [text |-> Tag(w_red), out |-> <<FgOf(w_red)>>, active |-> FALSE, tail |-> <<RESET>>],
    [text |-> Tag(GradRB) \o <<"a", "b">> \o CloseTag(w_gradient),
     out |-> <<"ESC[38;2;255;0;0m", "a", "ESC[38;2;0;0;255m", "b", RESET>>,
     active |-> FALSE, tail |-> <<>>],
    [text |-> Tag(GradRB) \o <<"a">>, out |-> <<"ESC[38;2;255;0;0m", "a">>,
     active |-> TRUE, tail |-> <<RESET>>],
    [text |-> Tag(w_rainbow) \o <<"a">>, out |-> <<"ESC[38;5;196m", "a">>,
     active |-> TRUE, tail |-> <<RESET>>] }

(* gradient tags with a name that is unknown, missing or a style *)
BadGradTags ==
  { w_gradient \o w_sp \o w_nosuch \o w_sp \o w_red,
    w_gradient \o w_sp \o w_red \o w_sp \o w_nosuch,
    w_gradient \o w_sp \o w_red,
    w_gradient \o w_sp \o w_sp,
    w_gradient,
    w_gradient \o w_sp \o w_bold \o w_sp \o w_red,
    w_gradient \o w_sp \o w_red \o w_sp \o w_bold,
    w_gradient \o w_sp \o w_fg \o Dec(196) \o w_sp \o w_red }

BadGradText(b, t) == b.text \o Tag(t) \o <<"x", "y">>
BadGradTexts == { BadGradText(b, t) : b \in BadGradBefore, t \in BadGradTags }

(* the next token of the call is the gradient tag t of the text *)
AtBadGrad(b, t) == pc = "emit" /\ str = BadGradText(b, t) /\ pos = Len(b.text) + 1

(* C33: a [gradient a b] in which a or b is unknown, missing or a style    *)
(* name leaves the gradient bit, the stored start, end, length and index,  *)
(* the rainbow counters and the rest of TagState as they are and writes    *)
(* nothing; when no effect was active before it, the text after it is      *)
(* written without any colour code of its own.                             *)
C33_BadGradientIgnored ==
  /\ [][\A b \in BadGradBefore : \A t \in BadGradTags :
          AtBadGrad(b, t) =>
            /\ m_tag_state' = m_tag_state
            /\ m_gradient' = m_gradient
            /\ m_rainbow_idx' = m_rainbow_idx /\ m_rainbow_len' = m_rainbow_len
            /\ capture_buf' = capture_buf
            /\ pos' = pos + Len(Tag(t))]_vars
  /\ [](\A b \in BadGradBefore : \A t \in BadGradTags :
          (pc = "flushed" /\ str = BadGradText(b, t) /\ ~b.active) =>
            capture_buf = b.out \o <<"x", "y">> \o b.tail \o <<FLUSH>>)

(* [gradient red blue]ab[/gradient][gradient bold red] was handled: the    *)
(* bit is clear and the counters of the span before are still there        *)
C33_Witness ==
  /\ pc = "emit"
  /\ str = Tag(GradRB) \o <<"a", "b">> \o CloseTag(w_gradient)
           \o Tag(w_gradient \o w_sp \o w_bold \o w_sp \o w_red) \o <<"x", "y">>
  /\ pos = Len(str) - 1
  /\ m_gradient = GradientState(<<255, 0, 0>>, <<0, 0, 255>>, 2, 2)
  /\ m_tag_state = TagState(NULL, NULL, 0)
  /\ LastOut(1) = <<RESET>>

(* [gradient nosuch red]xy was written as xy *)
C33_WitnessPlain ==
  /\ pc = "flushed"
  /\ str = Tag(w_gradient \o w_sp \o w_nosuch \o w_sp \o w_red) \o <<"x", "y">>
  /\ capture_buf = <<"x", "y", FLUSH>>

(* the units of a span body: a character, a space, a literal escape, a tag *)
(* of another kind                                                         *)
BodyUnits == { <<"a">>, <<" ">>, <<"[", "[">>, Tag(w_bold) }
BodySeqs(n) == UNION {[1..k -> BodyUnits] : k \in 0..n}
(* single units of the remaining kinds *)
OtherBodies ==
  { <<<<"\t">>>>, <<<<"\n">>>>, <<<<"\r">>>>, <<<<":", ":">>>>, <<<<"]", "]">>>>,
    <<Shortcode(w_fire)>>, <<Shortcode(w_U41)>>, <<<<"xC3", "xA9">>>>,
    <<CloseTag(w_bold)>> }

(* what a unit adds to the length of its span, as the claim has it *)
UnitCount(u) ==
  IF u \in {<<" ">>, <<"\t">>, <<"\n">>, Tag(w_bold), CloseTag(w_bold)} THEN 0 ELSE 1
RECURSIVE CountOf(_)
CountOf(us) == IF us = <<>> THEN 0 ELSE UnitCount(Head(us)) + CountOf(Tail(us))

(* the bytes a unit is written as *)
UnitBytes(u) ==
  IF u = Shortcode(w_fire) THEN EmojiBytes(w_fire)
  ELSE IF u = Shortcode(w_U41) THEN <<"A">>
  ELSE IF u \in {<<"[", "[">>, <<"]", "]">>, <<":", ":">>} THEN <<u[1]>>
  ELSE IF u \in {Tag(w_bold), CloseTag(w_bold)} THEN <<>>
  ELSE u
RECURSIVE BytesOf(_)
BytesOf(us) == IF us = <<>> THEN <<>> ELSE UnitBytes(Head(us)) \o BytesOf(Tail(us))

(* the two effects and the ways their span ends: [/], [/name], [/name x],  *)
(* each followed by a z that is outside the span; [/bold name], which is   *)
(* not a close of the effect for the count, so the z after it is in the    *)
(* span; the end of the input                                              *)
SpanEffects ==
  { [open |-> GradRB, name |-> w_gradient], [open |-> w_rainbow, name |-> w_rainbow] }
SpanEnds(e) ==
  { [text |-> CloseTag(<<>>) \o <<"z">>, more |-> 0],
    [text |-> CloseTag(e.name) \o <<"z">>, more |-> 0],
    [text |-> CloseTag(e.name \o w_sp \o w_x) \o <<"z">>, more |-> 0],
    [text |-> CloseTag(w_bold \o w_sp \o e.name) \o <<"z">>, more |-> 1],
    [text |-> <<>>, more |-> 0] }

Max1(n) == IF n > 1 THEN n ELSE 1

(* a span and where it is in its text: the position after its open tag,    *)
(* the effect, the number of units the claim counts, the bytes written for *)
(* the whole text, the position of its end, whether it is free of literal  *)
(* escape pairs, whether its effect lasts to the end the count stops at,   *)
(* whether a unit is counted, and whether a [/] closed a rainbow span      *)
(* before it                                                               *)
OneSpan(e, us, end) ==
  [text |-> Tag(e.open) \o Flat(us) \o end.text,
   at |-> Len(Tag(e.open)) + 1,
   name |-> e.name,
   n |-> Max1(CountOf(us) + end.more),
   bytes |-> BytesOf(us) \o (IF end.text = <<>> THEN <<>> ELSE <<"z">>),
   last |-> IF end.more = 1 /\ e.name = w_gradient
            THEN Len(Tag(e.open) \o Flat(us) \o end.text) + 1
            ELSE Len(Tag(e.open) \o Flat(us)) + 1,
   bare |-> \A k \in 1..Len(us) : Len(us[k]) # 2 \/ us[k][1] # us[k][2],
   whole |-> end.more = 0 \/ e.name = w_gradient,
   some |-> CountOf(us) + end.more > 0,
   stale |-> FALSE]

(* [effect]ab[/close][effect]aaa[/effect]: the second span *)
SecondSpan(e, cl) ==
  [text |-> Tag(e.open) \o <<"a", "b">> \o CloseTag(cl)
            \o Tag(e.open) \o <<"a", "a", "a">> \o CloseTag(e.name),
   at |-> 2 * Len(Tag(e.open)) + 2 + Len(CloseTag(cl)) + 1,
   name |-> e.name,
   n |-> 3,
   bytes |-> <<"a", "b", "a", "a", "a">>,
   last |-> 2 * Len(Tag(e.open)) + 2 + Len(CloseTag(cl)) + 4,
   bare |-> TRUE,
   whole |-> TRUE,
   some |-> TRUE,
   stale |-> e.name = w_rainbow /\ cl = <<>>]

SpanCasesOf(e) == { OneSpan(e, us, end) : us \in BodySeqs(MaxUnits) \cup OtherBodies,
                                          end \in SpanEnds(e) }
AllSpanCases ==
  UNION { SpanCasesOf(e) : e \in SpanEffects }
  \cup { SecondSpan(e, <<>>) : e \in SpanEffects }
  \cup { SecondSpan(e, e.name) : e \in SpanEffects }
SpanCaseTexts == { c.text : c \in AllSpanCases }

(* the length the code holds for the effect called name *)
LengthOf(name) == IF name = w_gradient THEN m_gradient.len ELSE m_rainbow_len
IndexOf(name) == IF name = w_gradient THEN m_gradient.idx ELSE m_rainbow_idx

(* the bytes written that are no escape sequence *)
PlainOut == SelectSeq(capture_buf, LAMBDA x : ~IsEscape(x) /\ x # FLUSH)

(* the open tag of the span c has been handled and nothing after it *)
SpanOpened(c) == pc = "emit" /\ str = c.text /\ pos = c.at

(* the statement of C34 for the cases cs *)
SpanLengthIn(cs) ==
  \A c \in cs :
    /\ SpanOpened(c) => LengthOf(c.name) = c.n /\ LengthOf(c.name) >= 1
                        /\ IndexOf(c.name) = 0
    /\ (pc = "flushed" /\ str = c.text) => PlainOut = c.bytes

(* C34: the span length fixed when an effect opens is the number of units  *)
(* from the open tag to the first [/] or [/effect] close tag or the end of *)
(* the input, with space, tab and newline and other tags counting 0 and    *)
(* every other character, literal escape, shortcode and codepoint 1; it is *)
(* at least 1; the emitter goes on right after the open tag and writes     *)
(* every unit once.  Taken for every span of a call, first or second.      *)
C34_SpanLength == SpanLengthIn(AllSpanCases)

(* the same for the spans that no [/] closing a rainbow span precedes *)
SpanLengthFresh == SpanLengthIn({c \in AllSpanCases : ~c.stale})

(* [rainbow]a [[[/rainbow]z: two units counted after the open tag          *)
SpanLengthSeen ==
  /\ pc = "emit"
  /\ str = Tag(w_rainbow) \o <<"a", " ", "[", "[">> \o CloseTag(w_rainbow) \o <<"z">>
  /\ pos = Len(Tag(w_rainbow)) + 1
  /\ m_rainbow_len = 2 /\ m_rainbow_idx = 0

(* the next token is one that emit_char_color is called for *)
NextPainted ==
  LET tok == next_markup_token(str, pos)
  IN \/ tok.type \in {"TOK_EMOJI", "TOK_UNICODE"}
     \/ tok.type = "TOK_CHAR" /\ tok.ch \notin {" ", "\t", "\n"}

(* the emitter stands at the end of the span c: at its close tag or at the *)
(* end of the input                                                        *)
SpanEnding(c) == pc = "emit" /\ str = c.text /\ pos = c.last

(* the statement of C35 for the cases cs: at the end of the span as many   *)
(* units were given a colour of the effect as its length says, and the     *)
(* index was below the length each time                                    *)
PaintedIsCounted(cs) ==
  \A c \in cs :
    /\ SpanEnding(c) => IndexOf(c.name) = LengthOf(c.name)
    /\ (pc = "emit" /\ str = c.text /\ pos >= c.at /\ pos < c.last /\ NextPainted) =>
         IndexOf(c.name) < LengthOf(c.name)

(* C35: pre-scan and emission agree.  For every effect span, ended by its  *)
(* close tag, by [/], by a multi-word close such as [/bold rainbow] or by  *)
(* the end of the input, with whatever tags and literal escapes inside,    *)
(* the number of units given a colour under the effect is the span length  *)
(* the pre-scan computed, and the index is below that length each time a   *)
(* unit is coloured.  Taken for the spans that hold a counted unit.        *)
C35_PrescanMatchesEmission == PaintedIsCounted({c \in AllSpanCases : c.some})

(* the same for the spans without a literal escape pair, not ended by a    *)
(* multi-word close, and not after a rainbow span closed by [/]            *)
PaintedIsCountedBare ==
  PaintedIsCounted({c \in AllSpanCases : c.some /\ c.bare /\ c.whole /\ ~c.stale})

(* [rainbow]a[[a[/rainbow]z stands at the close tag: the length is 3, two  *)
(* units were given a colour, the second of them the middle palette entry  *)
PrescanAheadSeen ==
  /\ pc = "emit"
  /\ str = Tag(w_rainbow) \o <<"a", "[", "[", "a">> \o CloseTag(w_rainbow) \o <<"z">>
  /\ pos = Len(Tag(w_rainbow)) + 5
  /\ m_rainbow_len = 3 /\ m_rainbow_idx = 2
  /\ capture_buf = <<"ESC[38;5;196m", "a", "[", "ESC[38;5;46m", "a">>

(* texts with an unclosed bracket or colon, in and out of a span *)
w_rain_open == <<"[", "r", "a", "i", "n", "b", "o", "w">>
BrokenTexts ==
  { Tag(w_rainbow) \o <<"a", "[", "b">>, Tag(w_rainbow) \o <<"[">>,
    Tag(w_rainbow) \o <<":", "x">>, Tag(w_rainbow) \o <<"a", ":">>,
    Tag(w_rainbow) \o <<":", "f", "i", "r", "e">>, Tag(w_rainbow) \o <<"]", "a">>,
    Tag(GradRB) \o <<"xC3", "xA9", "[">>, Tag(GradRB) \o <<"xA9", "xA9">>,
    Tag(GradRB) \o <<"[", "/">>, w_rain_open, w_rain_open \o <<":", ":", "]">>,
    <<"[">>, <<":">>, <<"]">>, <<"a">>, <<"[", "]">>, <<":", ":">>, <<"[", "[">> }

(* the token read at position p of the text of the call *)
TokAt(p) == next_markup_token(str, p)

(* position of the terminating NUL of the text of the call *)
NulPos == Len(str) + 1

(* C36: each call of the tokenizer either returns the end marker at the    *)
(* terminating NUL, leaving the position there, or consumes at least one   *)
(* byte and leaves the position at or before the NUL; so the tokens read   *)
(* from any position, by the emitter or by a pre-scan, are finite in       *)
(* number, at most the bytes that remain, and the emitter itself is never  *)
(* beyond the NUL.  Every position of a text is taken when the call        *)
(* starts, the position of the emitter at each later step.                 *)
C36_TokenizerProgress ==
  pc = "emit" =>
    /\ pos >= 1 /\ pos <= NulPos
    /\ \A p \in (IF pos = 1 THEN 1..NulPos ELSE {pos}) :
         /\ (TokAt(p).type = "TOK_END") = (p = NulPos)
         /\ p = NulPos => TokAt(p).pos = p
         /\ p < NulPos => TokAt(p).pos > p /\ TokAt(p).pos <= NulPos
    /\ pos = 1 => \A p \in 1..NulPos : Len(tokens_from(str, p)) <= NulPos - p

(* [gradient red blue] followed by a two-byte character and an unclosed    *)
(* bracket: the emitter has read the character as one token of two bytes   *)
(* and stands before the bracket, the last byte                            *)
C36_Witness ==
  /\ pc = "emit"
  /\ str = Tag(GradRB) \o <<"xC3", "xA9", "[">>
  /\ pos = Len(str)
  /\ TokAt(pos).type = "TOK_CHAR" /\ TokAt(pos).pos = NulPos
  /\ m_gradient.len = 2 /\ m_gradient.idx = 1

SpanTexts == EffectCloseTexts \cup BadGradTexts \cup SpanCaseTexts \cup BrokenTexts

NextSpan ==
  \/ \E s \in SpanTexts : ansi_puts(s) /\ UNCHANGED <<last_call, bar, thr, tui>>
  \/ ansi_emit_step /\ UNCHANGED <<last_call, bar, thr, tui>>
  \/ ansi_emit_return /\ UNCHANGED <<last_call, bar, thr, tui>>

SpecSpan == Init /\ [][NextSpan]_vars

(* ----------------------------------------------------------------------- *)
(* Specification: text outside every foreground tag, under a default       *)
(* foreground                                                              *)
(* ----------------------------------------------------------------------- *)

(* texts that end in a y outside every foreground tag, with what closed    *)
(* the tag before it: [/], the name of the active colour, another name     *)
BaselineCases ==
  { [text |-> Tag(w_red) \o <<"x">> \o CloseTag(<<>>) \o <<"y">>, fgclose |-> TRUE],
    [text |-> Tag(w_red) \o <<"x">> \o CloseTag(w_red) \o <<"y">>, fgclose |-> TRUE],
    [text |-> Tag(w_red \o w_sp \o w_bold) \o <<"x">> \o CloseTag(w_red \o w_sp \o w_bold)
              \o <<"y">>, fgclose |-> TRUE],
    [text |-> Tag(w_bold) \o <<"x">> \o CloseTag(w_bold) \o <<"y">>, fgclose |-> FALSE],
    [text |-> Tag(w_bold) \o <<"x">> \o CloseTag(w_red) \o <<"y">>, fgclose |-> FALSE],
    [text |-> Tag(w_dim) \o <<"x">> \o CloseTag(w_dim) \o <<"y">>, fgclose |-> FALSE] }

NextBaseline ==
  \/ \E c \in {NullStr, w_green, w_blue} : ansi_set_fg(c) /\ UNCHANGED <<last_call, bar, thr, tui>>
  \/ \E c \in BaselineCases : ansi_puts(c.text) /\ UNCHANGED <<last_call, bar, thr, tui>>
  \/ ansi_emit_step /\ UNCHANGED <<last_call, bar, thr, tui>>
  \/ ansi_emit_return /\ UNCHANGED <<last_call, bar, thr, tui>>
  \/ capture_reset /\ UNCHANGED <<last_call, bar, thr, tui>>

SpecBaseline == Init /\ [][NextBaseline]_vars

(* the escapes that set the foreground of the terminal: the codes of the   *)
(* named colours, and the reset                                            *)
FgEscapes ==
  { ATTRS[i].fg_code : i \in {j \in 1..Len(ATTRS) : ATTRS[j].style = 0} } \cup { RESET }

(* the last of them in the bytes written, NULL when there is none *)
LastFgEscape ==
  LET at == { k \in 1..Len(capture_buf) : capture_buf[k] \in FgEscapes }
  IN IF at = {} THEN NULL ELSE capture_buf[CHOOSE k \in at : \A j \in at : j <= k]

(* the y of the text c is about to be written *)
BeforeY(c) == pc = "emit" /\ str = c.text /\ pos = Len(str)

(* the statement of C37 for the cases cs *)
DefaultInForce(cs) ==
  \A c \in cs :
    (BeforeY(c) /\ m_color_enabled # 0 /\ m_default_fg # NULL) =>
      LastFgEscape = m_default_fg

(* C37: with color enabled and a default foreground D set by ansi_set_fg,  *)
(* a character written while no foreground tag is open is displayed in D:  *)
(* the last foreground escape or reset written before it is the escape of  *)
(* D.  Taken for the y after [/] and after a selective close, whichever    *)
(* words the close names.                                                  *)
C37_DefaultInForce == DefaultInForce(BaselineCases)

(* the same for the closes that name the active foreground or nothing *)
DefaultAfterFgClose == DefaultInForce({c \in BaselineCases : c.fgclose})

(* after ansi_set_fg("green"), [bold]x[/bold] was written and the y comes  *)
(* next: the last escape is the reset, green is not written again          *)
DefaultLostSeen ==
  /\ pc = "emit" /\ pos = Len(str)
  /\ str = Tag(w_bold) \o <<"x">> \o CloseTag(w_bold) \o <<"y">>
  /\ m_default_fg = FgOf(w_green)
  /\ capture_buf = <<BOLD, "x", RESET>>

(* after ansi_set_fg("green"), [red]x[/red] was written: green is back *)
DefaultBackSeen ==
  /\ pc = "emit" /\ pos = Len(str)
  /\ str = Tag(w_red) \o <<"x">> \o CloseTag(w_red) \o <<"y">>
  /\ m_default_fg = FgOf(w_green)
  /\ capture_buf = <<FgOf(w_red), "x", RESET, FgOf(w_green)>>

(* ----------------------------------------------------------------------- *)
(* Specification: the colour tags of ansi_bar, in roomy and tight buffers  *)
(* ----------------------------------------------------------------------- *)

(* colour arguments: whether lookup_attr finds an entry with a foreground  *)
(* code for them                                                           *)
TagColors ==
  { [name |-> NullStr, resolves |-> FALSE], [name |-> w_red, resolves |-> TRUE],
    [name |-> w_orange, resolves |-> TRUE], [name |-> w_nosuch, resolves |-> FALSE] }
TagSizes == { 128, 24, 16, 12, 11, 8, 2 }

NextBarTag ==
  \/ \E c \in TagColors : \E n \in TagSizes : \E w \in {1, 2, 3} : \E v \in {0, 30, 100} :
       ansi_bar("buf", n, c.name, w, 1, Double(v), Double(0), Double(100))
  \/ bar_release

SpecBarTag == Init /\ [][NextBarTag]_vars

(* the colour argument of the call made, and its case *)
BarColor == bar.args[3]
BarColorCase == CHOOSE c \in TagColors : c.name = BarColor

(* both tags fit: [color] and [/color] in the bytes before the terminator *)
TagsFit == (Len(BarColor) + 2) + (Len(BarColor) + 3) <= BarSize - 1

(* positions of the opening brackets in the string built *)
Brackets == { k \in 1..Len(bar.buf) : bar.buf[k] = "[" }

(* the string starts with the tag open and holds the tag close after a     *)
(* run of whole block glyphs, and no other bracket                         *)
WrappedBy(open, close) ==
  /\ has_prefix(bar.buf, open)
  /\ \E n \in 0..BarWidth :
       LET k == Len(open) + 3 * n
       IN /\ k + Len(close) <= Len(bar.buf)
          /\ SubSeq(bar.buf, k + 1, k + Len(close)) = close
          /\ Brackets = {1, k + 1}
          /\ \A j \in Len(open) + 1..k : bar.buf[j] \in {"xE2", "x96"} \cup
                                          {m_bar_block[b][3] : b \in 1..8}

C38_WitnessOmitted ==
  /\ bar.fn = "ansi_bar"
  /\ bar.args = <<"buf", 11, w_red, 3, 1, Double(100), Double(0), Double(100)>>
  /\ bar.buf = FullBlock \o FullBlock \o FullBlock

(* ----------------------------------------------------------------------- *)
(* ansi_bar_percent on a NULL buffer and on a capacity of 0 (SpecPercent)  *)
(* ----------------------------------------------------------------------- *)

(* C39: ansi_bar_percent handles degenerate buffers as ansi_bar does: with *)
(* buf NULL or buf_size 0 it reads and writes nothing through buf and      *)
(* returns, and for every buf_size it stores nothing outside the buf_size  *)
(* bytes of the buffer.                                                    *)
C39_PercentDegenerate ==
  bar.fn = "ansi_bar_percent" =>
    /\ bar.bad = "no"
    /\ bar.ret # "no return"
    /\ (bar.args[1] = NULL \/ bar.args[2] = 0) => ~bar.written
    /\ Len(bar.mem) <= bar.args[2]

(* the same for the buffers of at least one byte *)
PercentInBounds ==
  (bar.fn = "ansi_bar_percent" /\ bar.args[1] # NULL /\ bar.args[2] >= 1) =>
    /\ bar.bad = "no"
    /\ bar.ret = "buf"
    /\ Len(bar.mem) <= bar.args[2]

(* ansi_bar_percent(NULL, 0, ...): strlen was called on the NULL pointer *)
PercentNullSeen ==
  /\ bar.fn = "ansi_bar_percent"
  /\ bar.args[1] = NULL
  /\ bar.bad = "read through NULL"

(* ansi_bar_percent(buf, 0, ...) over two stale bytes: the suffix was      *)
(* stored behind them, outside the buffer                                  *)
PercentWrapSeen ==
  /\ bar.fn = "ansi_bar_percent"
  /\ bar.args[1] = "buf" /\ bar.args[2] = 0 /\ bar.args[6] = 73
  /\ bar.bad = "write outside the buffer"
  /\ bar.mem = <<"?", "?", " ", "7", "3", "%", Chr(0)>>

(* ----------------------------------------------------------------------- *)
(* Specification: tui_resolve over chains of parent frames                 *)
(* ----------------------------------------------------------------------- *)

(* frames as the tests make them: test_negative_nested has the first and   *)
(* the third                                                               *)
ResolveFrames ==
  { [row |-> 1, col |-> 1, width |-> 60, height |-> 30],
    [row |-> 2, col |-> 3, width |-> 40, height |-> 12],
    [row |-> -5, col |-> 1, width |-> 30, height |-> 5],
    [row |-> 3, col |-> -12, width |-> 12, height |-> 4],
    [row |-> -4, col |-> -20, width |-> 20, height |-> 4] }
ResolveChains ==
  { <<>> } \cup { <<f>> : f \in ResolveFrames }
  \cup { <<f, g>> : f \in ResolveFrames, g \in ResolveFrames }
  \cup { <<f, g, h>> : f \in ResolveFrames, g \in ResolveFrames, h \in ResolveFrames }
ResolveRows == { 1, 2, 5, 6, -1, -3 }
ResolveCols == { 1, 8, 30, -1, -5 }

(* a widget init function calls tui_resolve(parent, row, col, &r, &c) *)
tui_resolve_call(parent, row, col) ==
  /\ tui_idle /\ tui.kind = "none"
  /\ tui' = [kind |-> "resolve", parent |-> parent, row |-> row, col |-> col,
             abs |-> tui_resolve(parent, row, col)]
  /\ UNCHANGED <<m_putc_function, m_flush_function, m_color_enabled, m_no_color_lock,
                 m_tag_state, m_default_fg, m_default_bg, m_num_fg, m_num_bg,
                 m_rainbow_idx, m_rainbow_len, m_gradient, capture_buf, fault,
                 env_vars, buf_vars, call_vars, last_call, bar, thr>>

NextResolve ==
  \/ \E p \in ResolveChains : \E r \in ResolveRows : \E c \in ResolveCols :
       tui_resolve_call(p, r, c)
  \/ tui_release

SpecResolve == Init /\ [][NextResolve]_vars

(* a local coordinate inside a frame: a negative one counts back from the  *)
(* end of the interior, -1 being its last row or column                    *)
LocalRow(f, row) == IF row < 0 THEN row + (f.height - 2) + 1 ELSE row
LocalCol(f, col) == IF col < 0 THEN col + (f.width - 4) + 1 ELSE col

(* the position of the claim: the absolute position of the parent frame,   *)
(* itself resolved against its own parents, plus the local offset, the     *)
(* column one further per level                                            *)
RECURSIVE AbsOf(_, _, _)
AbsOf(parent, row, col) ==
  IF parent = <<>> THEN [row |-> row, col |-> col]
  ELSE LET at == AbsOf(Tail(parent), parent[1].row, parent[1].col)
       IN [row |-> at.row + LocalRow(parent[1], row),
           col |-> at.col + LocalCol(parent[1], col) + 1]

(* (row, col) lies in the interior of the first frame of the chain, and    *)
(* each frame of the chain lies in the interior of the next                *)
RECURSIVE LiesInside(_, _, _, _, _)
LiesInside(parent, row, col, height, width) ==
  \/ parent = <<>>
  \/ /\ LocalRow(parent[1], row) >= 1
     /\ LocalRow(parent[1], row) + height - 1 <= parent[1].height - 2
     /\ LocalCol(parent[1], col) >= 1
     /\ LocalCol(parent[1], col) + width - 1 <= parent[1].width - 4
     /\ LiesInside(Tail(parent), parent[1].row, parent[1].col,
                   parent[1].height, parent[1].width)

(* C40: the position resolved for a widget is the absolute position of its *)
(* parent frame plus the local offset of the widget, the column one        *)
(* further per level, a negative local row or column counting back from    *)
(* the end of the interior of that parent; this composes over every depth  *)
(* and every mix of signs in the chain, so a frame placed with a negative  *)
(* row resolves to the same row whatever the local row of the child; with  *)
(* no parent the coordinates pass through.                                 *)
C40_ResolveComposes ==
  tui.kind = "resolve" => tui.abs = AbsOf(tui.parent, tui.row, tui.col)

(* the same for a widget of one cell inside its frame, each frame inside   *)
(* the one around it                                                       *)
ResolveInsideComposes ==
  (tui.kind = "resolve" /\ LiesInside(tui.parent, tui.row, tui.col, 1, 1)) =>
    tui.abs = AbsOf(tui.parent, tui.row, tui.col)

(* test_negative_nested: row 1 in the frame at row -5 of the 60 x 30 frame *)
(* resolves to row 26, column 5                                            *)
ResolveNestedSeen ==
  /\ tui.kind = "resolve"
  /\ tui.parent = << [row |-> -5, col |-> 1, width |-> 30, height |-> 5],
                     [row |-> 1, col |-> 1, width |-> 60, height |-> 30] >>
  /\ tui.row = 1 /\ tui.col = 1
  /\ tui.abs = [row |-> 26, col |-> 5]
  /\ LiesInside(tui.parent, tui.row, tui.col, 1, 1)

(* row 6 in the same frame resolves to row 2, not to 25 + 6 *)
ResolveJumpSeen ==
  /\ tui.kind = "resolve"
  /\ tui.parent = << [row |-> -5, col |-> 1, width |-> 30, height |-> 5],
                     [row |-> 1, col |-> 1, width |-> 60, height |-> 30] >>
  /\ tui.row = 6 /\ tui.col = 1
  /\ tui.abs = [row |-> 2, col |-> 5]
  /\ AbsOf(tui.parent, tui.row, tui.col) = [row |-> 31, col |-> 5]
====
